---------------------------- MODULE Spec2Model ----------------------------
(***************************************************************************)
(* nsscash: the fetch/deploy tool (Go), the nsscash file format and the    *)
(* NSS reader (C).                                                         *)
(*                                                                         *)
(* Byte strings are run-length encoded: a byte string is a sequence of     *)
(* runs <<c, n>> (n >= 1 copies of byte c, adjacent runs differ), so that  *)
(* records at the uint16 limit (65535 bytes) stay small values.  Bytes are *)
(* ASCII codes: 0 NUL, 10 newline, 44 comma, 58 colon, 48..57 digits.      *)
(*                                                                         *)
(* A uint64 (uid, gid) is the sequence of its 8 base-256 digits, least     *)
(* significant first: the model checker's integers are 32 bits wide.       *)
(* Lengths and offsets, which stay far below 2^31, are integers.           *)
(***************************************************************************)
EXTENDS Integers, Sequences, FiniteSets, TLC

(***************************************************************************)
(* Byte strings                                                            *)
(***************************************************************************)
Rep(c, n) == IF n <= 0 THEN << >> ELSE << <<c, n>> >>

BCat(a, b) ==
    IF a = << >> THEN b
    ELSE IF b = << >> THEN a
    ELSE IF a[Len(a)][1] = b[1][1]
         THEN SubSeq(a, 1, Len(a) - 1)
                  \o << <<b[1][1], a[Len(a)][2] + b[1][2]>> >>
                  \o Tail(b)
         ELSE a \o b

RECURSIVE LitFrom(_, _)
LitFrom(s, k) ==
    IF k > Len(s) THEN << >> ELSE BCat(Rep(s[k], 1), LitFrom(s, k + 1))

\* the byte string holding the bytes of the plain sequence s
Lit(s) == LitFrom(s, 1)

RECURSIVE BLenFrom(_, _)
BLenFrom(b, k) == IF k > Len(b) THEN 0 ELSE b[k][2] + BLenFrom(b, k + 1)

BLen(b) == BLenFrom(b, 1)

RECURSIVE BDropFrom(_, _, _)
BDropFrom(b, k, off) ==
    IF k > Len(b) THEN << >>
    ELSE IF off >= b[k][2] THEN BDropFrom(b, k + 1, off - b[k][2])
    ELSE IF off <= 0 THEN SubSeq(b, k, Len(b))
    ELSE << <<b[k][1], b[k][2] - off>> >> \o SubSeq(b, k + 1, Len(b))

\* b without its first off bytes
BDrop(b, off) == BDropFrom(b, 1, off)

RECURSIVE BTakeFrom(_, _, _)
BTakeFrom(b, k, n) ==
    IF k > Len(b) \/ n <= 0 THEN << >>
    ELSE IF n >= b[k][2] THEN <<b[k]>> \o BTakeFrom(b, k + 1, n - b[k][2])
    ELSE << <<b[k][1], n>> >>

\* the first n bytes of b
BTake(b, n) == BTakeFrom(b, 1, n)

BSub(b, off, n) == BTake(BDrop(b, off), n)

RECURSIVE IndexFrom(_, _, _, _)
IndexFrom(b, c, k, acc) ==
    IF k > Len(b) THEN -1
    ELSE IF b[k][1] = c THEN acc
    ELSE IndexFrom(b, c, k + 1, acc + b[k][2])

\* offset of the first byte c in b, -1 when there is none
IndexByte(b, c) == IndexFrom(b, c, 1, 0)

\* byte-wise lexicographic order (Go's string <, C's strcmp on NUL-free
\* strings): -1, 0, +1
RECURSIVE BCmp(_, _)
BCmp(a, b) ==
    IF a = << >> THEN (IF b = << >> THEN 0 ELSE -1)
    ELSE IF b = << >> THEN 1
    ELSE IF a[1][1] < b[1][1] THEN -1
    ELSE IF a[1][1] > b[1][1] THEN 1
    ELSE LET m == IF a[1][2] < b[1][2] THEN a[1][2] ELSE b[1][2]
         IN  BCmp(BDrop(a, m), BDrop(b, m))

(***************************************************************************)
(* uint64 numerals                                                         *)
(***************************************************************************)
\* uint64(n) of a Go int 0 <= n < 2^31
U64FromInt(n) ==
    << n % 256, (n \div 256) % 256, (n \div 65536) % 256,
       (n \div 16777216) % 256, 0, 0, 0, 0 >>

RECURSIVE CmpU64From(_, _, _)
CmpU64From(a, b, k) ==
    IF k < 1 THEN 0
    ELSE IF a[k] < b[k] THEN -1
    ELSE IF a[k] > b[k] THEN 1
    ELSE CmpU64From(a, b, k - 1)

CmpU64(a, b) == CmpU64From(a, b, 8)

\* v * 10 + carry, digit by digit; the 9th element is the carry out
RECURSIVE MulAdd10(_, _, _)
MulAdd10(v, k, carry) ==
    IF k > 8 THEN <<carry>>
    ELSE LET x == v[k] * 10 + carry
         IN  <<x % 256>> \o MulAdd10(v, k + 1, x \div 256)


\* strconv.ParseUint(s, 10, 64): b holds the runs of s, k is the run being
\* read, j the digits of that run already consumed, v the value so far.
\* A run of more than 20 digits is cut short: leading zeros change
\* nothing, and any other 21 digits overflow.
RECURSIVE ParseDigits(_, _, _, _)
ParseDigits(b, k, j, v) ==
    IF k > Len(b) THEN [ok |-> TRUE, v |-> v]
    ELSE IF b[k][1] < 48 \/ b[k][1] > 57
         THEN [ok |-> FALSE, v |-> U64FromInt(0)]          \* ErrSyntax
    ELSE IF j >= b[k][2] THEN ParseDigits(b, k + 1, 0, v)
    ELSE IF b[k][1] = 48 /\ v = U64FromInt(0) THEN ParseDigits(b, k + 1, 0, v)
    ELSE LET x == MulAdd10(v, 1, b[k][1] - 48)
         IN  IF x[9] # 0
             THEN [ok |-> FALSE, v |-> U64FromInt(0)]      \* ErrRange
             ELSE ParseDigits(b, k, j + 1, SubSeq(x, 1, 8))

ParseUint(s) ==
    IF s = << >> THEN [ok |-> FALSE, v |-> U64FromInt(0)]
    ELSE ParseDigits(s, 1, 0, U64FromInt(0))

(***************************************************************************)
(* The text parsers (Go)                                                   *)
(***************************************************************************)
\* strings.Split(b, sep) for a one-byte separator
RECURSIVE Split(_, _)
Split(b, sep) ==
    LET i == IndexByte(b, sep)
    IN  IF i < 0 THEN <<b>>
        ELSE <<BTake(b, i)>> \o Split(BDrop(b, i + 1), sep)

\* strings.Join(list, sep) for a one-byte separator
RECURSIVE JoinFrom(_, _, _)
JoinFrom(list, k, sep) ==
    IF k > Len(list) THEN << >>
    ELSE IF k = Len(list) THEN list[k]
    ELSE BCat(BCat(list[k], Rep(sep, 1)), JoinFrom(list, k + 1, sep))

Join(list, sep) == JoinFrom(list, 1, sep)

\* strings.TrimSuffix(b, "\n")
TrimSuffix(b) ==
    IF b # << >> /\ b[Len(b)][1] = 10 THEN BTake(b, BLen(b) - 1) ELSE b

NoPasswd ==
    [Name |-> << >>, Passwd |-> << >>, Uid |-> U64FromInt(0),
     Gid |-> U64FromInt(0), Gecos |-> << >>, Dir |-> << >>, Shell |-> << >>]

\* the body of the loop of ParsePasswds for one line t (delimiter included)
ParsePasswdLine(t) ==
    LET x == Split(t, 58)
    IN  IF Len(x) # 7 THEN [err |-> "invalid line", rec |-> NoPasswd]
        ELSE LET uid == ParseUint(x[3])
                 gid == ParseUint(x[4])
             IN  IF ~uid.ok
                 THEN [err |-> "invalid uid in line", rec |-> NoPasswd]
                 ELSE IF ~gid.ok
                 THEN [err |-> "invalid gid in line", rec |-> NoPasswd]
                 ELSE [err |-> "",
                       rec |-> [Name |-> x[1], Passwd |-> x[2],
                                Uid |-> uid.v, Gid |-> gid.v,
                                Gecos |-> x[5], Dir |-> x[6],
                                Shell |-> TrimSuffix(x[7])]]

\* what ParsePasswds does when ReadString hits io.EOF with t unread
PasswdAtEOF(t, res) == [err |-> "", res |-> res]

\* s is the unread input, res the records so far
RECURSIVE ParsePasswdsLoop(_, _)
ParsePasswdsLoop(s, res) ==
    LET i == IndexByte(s, 10)
    IN  IF i < 0 THEN PasswdAtEOF(s, res)
        ELSE LET r == ParsePasswdLine(BTake(s, i + 1))
             IN  IF r.err # "" THEN [err |-> r.err, res |-> << >>]
                 ELSE ParsePasswdsLoop(BDrop(s, i + 1), Append(res, r.rec))

ParsePasswds(r) == ParsePasswdsLoop(r, << >>)

NoGroup ==
    [Name |-> << >>, Passwd |-> << >>, Gid |-> U64FromInt(0),
     Members |-> << >>]

ParseGroupLine(t) ==
    LET x == Split(t, 58)
    IN  IF Len(x) # 4 THEN [err |-> "invalid line", rec |-> NoGroup]
        ELSE LET gid == ParseUint(x[3])
                 x3  == TrimSuffix(x[4])
             IN  IF ~gid.ok
                 THEN [err |-> "invalid gid in line", rec |-> NoGroup]
                 ELSE [err |-> "",
                       rec |-> [Name |-> x[1], Passwd |-> x[2],
                                Gid |-> gid.v,
                                Members |-> IF x3 # << >>
                                            THEN Split(x3, 44)
                                            ELSE << >>]]

\* what ParseGroups does when ReadString hits io.EOF with t unread
GroupAtEOF(t, res) ==
    IF t # << >> THEN [err |-> "no newline in last line", res |-> << >>]
    ELSE [err |-> "", res |-> res]

RECURSIVE ParseGroupsLoop(_, _)
ParseGroupsLoop(s, res) ==
    LET i == IndexByte(s, 10)
    IN  IF i < 0 THEN GroupAtEOF(s, res)
        ELSE LET r == ParseGroupLine(BTake(s, i + 1))
             IN  IF r.err # "" THEN [err |-> r.err, res |-> << >>]
                 ELSE ParseGroupsLoop(BDrop(s, i + 1), Append(res, r.rec))

ParseGroups(r) == ParseGroupsLoop(r, << >>)

(***************************************************************************)
(* The serializer (Go)                                                     *)
(***************************************************************************)
\* math.MaxUint16
MaxUint16 == 65535

\* Go's uint16(n) conversion of an int n >= 0
U16(n) == n % 65536

\* binary.LittleEndian.PutUint16 / PutUint64, appended to a buffer
PutUint16(v) == Lit(<<v % 256, (v \div 256) % 256>>)

PutUint64(v) == Lit(v)

RECURSIVE CatFrom(_, _)
CatFrom(list, k) ==
    IF k > Len(list) THEN << >> ELSE BCat(list[k], CatFrom(list, k + 1))

\* an alignBufferTo that adds no padding
NoAlign(b, align) == b

\* successive Write calls on one bytes.Buffer
Cat(list) == CatFrom(list, 1)

alignBufferTo(b, align) ==
    LET l == BLen(b)
    IN  IF l % align = 0 THEN b
        ELSE BCat(b, Rep(0, align - (l % align)))

\* a size check that lets a data section of 65536 bytes pass
TooLargeLate(n) == n > MaxUint16 + 1

\* a size check that is off by one
TooLargeFrom(n) == n >= MaxUint16

\* the size check of SerializePasswd and SerializeGroup on data.Len()
TooLarge(n) == n > MaxUint16

SerializePasswd(p) ==
    LET d1 == BCat(p.Name, Rep(0, 1))
        offPasswd == U16(BLen(d1))
        d2 == Cat(<<d1, p.Passwd, Rep(0, 1)>>)
        offGecos == U16(BLen(d2))
        d3 == Cat(<<d2, p.Gecos, Rep(0, 1)>>)
        offDir == U16(BLen(d3))
        d4 == Cat(<<d3, p.Dir, Rep(0, 1)>>)
        offShell == U16(BLen(d4))
        data == Cat(<<d4, p.Shell, Rep(0, 1)>>)
        size == U16(BLen(data))
    IN  IF TooLarge(BLen(data))
        THEN [err |-> "passwd too large to serialize", res |-> << >>]
        ELSE [err |-> "",
              res |-> alignBufferTo(
                          Cat(<<PutUint64(p.Uid), PutUint64(p.Gid),
                                PutUint16(offPasswd), PutUint16(offGecos),
                                PutUint16(offDir), PutUint16(offShell),
                                PutUint16(size), data>>), 8)]

\* the first loop of SerializeGroup: the members concatenated, and the
\* offset of each in that buffer
RECURSIVE MemsLoop(_, _, _, _)
MemsLoop(members, k, mems, mems_off) ==
    IF k > Len(members) THEN [mems |-> mems, mems_off |-> mems_off]
    ELSE MemsLoop(members, k + 1,
                  Cat(<<mems, members[k], Rep(0, 1)>>),
                  Append(mems_off, U16(BLen(mems))))

\* the second loop of SerializeGroup: the uint16 offset table
RECURSIVE MemOffTable(_, _, _)
MemOffTable(mems_off, k, offMem) ==
    IF k > Len(mems_off) THEN << >>
    ELSE BCat(PutUint16(U16(offMem + mems_off[k])),
              MemOffTable(mems_off, k + 1, offMem))

SerializeGroup(g) ==
    LET m == MemsLoop(g.Members, 1, << >>, << >>)
        d1 == BCat(g.Name, Rep(0, 1))
        offPasswd == U16(BLen(d1))
        d2 == alignBufferTo(Cat(<<d1, g.Passwd, Rep(0, 1)>>), 2)
        offMemOff == U16(BLen(d2))
        offMem == U16(offMemOff + U16(2 * U16(Len(m.mems_off))))
        data == Cat(<<d2, MemOffTable(m.mems_off, 1, offMem), m.mems>>)
        size == U16(BLen(data))
    IN  IF TooLarge(BLen(data))
        THEN [err |-> "group too large to serialize", res |-> << >>]
        ELSE [err |-> "",
              res |-> alignBufferTo(
                          Cat(<<PutUint64(g.Gid), PutUint16(offPasswd),
                                PutUint16(offMemOff),
                                PutUint16(U16(Len(g.Members))),
                                PutUint16(size), data>>), 8)]

toKey(g) ==
    [Name |-> g.Name, Passwd |-> g.Passwd, Gid |-> g.Gid,
     Members |-> Join(g.Members, 44)]

\* the first loop of SerializePasswds and SerializeGroups: x[k] is the
\* result of SerializePasswd / SerializeGroup for record k, keys[k] its map
\* key (the record itself, or toKey of it), data the buffer so far and
\* offsets the map from key to offset
RECURSIVE SerializeLoop(_, _, _, _, _)
SerializeLoop(x, keys, k, data, offsets) ==
    IF k > Len(x) THEN [err |-> "", data |-> data, offsets |-> offsets]
    ELSE IF x[k].err # ""
         THEN [err |-> x[k].err, data |-> data, offsets |-> offsets]
    ELSE SerializeLoop(x, keys, k + 1, BCat(data, x[k].res),
                       (keys[k] :> BLen(data)) @@ offsets)

\* one index: the uint64 offset of each record, in the order of keys
RECURSIVE IndexOf(_, _, _)
IndexOf(keys, k, offsets) ==
    IF k > Len(keys) THEN << >>
    ELSE BCat(PutUint64(U64FromInt(offsets[keys[k]])),
              IndexOf(keys, k + 1, offsets))

\* sort.Slice(s, less) does not promise a stable sort: its result is some
\* permutation of s in which no element is less than an earlier one; less
\* is given on the indexes of s
SortSlice(s, less) ==
    LET n == Len(s)
        perms == {f \in [1..n -> 1..n] : \A i, j \in 1..n : i # j => f[i] # f[j]}
    IN  {[i \in 1..n |-> s[f[i]]] :
            f \in {g \in perms :
                      \A i, j \in 1..n : i < j => ~less[g[j], g[i]]}}

LessUid(a, b) == CmpU64(a.Uid, b.Uid) < 0

LessGid(a, b) == CmpU64(a.Gid, b.Gid) < 0

\* a comparison that leaves the name index in any order
LessNever(a, b) == FALSE

LessName(a, b) == BCmp(a.Name, b.Name) < 0

\* the file written by SerializePasswds and SerializeGroups once the
\* indexes are built
WriteResult(count, indexOrig, indexId, indexName, data) ==
    Cat(<<Lit(<<78, 83, 83, 45, 67, 65, 83, 72>>),          \* "NSS-CASH"
          PutUint64(U64FromInt(1)),                           \* version
          PutUint64(U64FromInt(count)),
          PutUint64(U64FromInt(0)),
          PutUint64(U64FromInt(BLen(indexOrig))),
          PutUint64(U64FromInt(BLen(indexOrig) + BLen(indexId))),
          PutUint64(U64FromInt(BLen(indexOrig) + BLen(indexId)
                                   + BLen(indexName))),
          indexOrig, indexId, indexName, data>>)

\* the rest of SerializePasswds / SerializeGroups after the first loop l:
\* the three indexes, the sanity check and the output
SerializeRest(l, keysOrig, keysId, keysName) ==
    LET indexOrig == IndexOf(keysOrig, 1, l.offsets)
        indexId == IndexOf(keysId, 1, l.offsets)
        indexName == IndexOf(keysName, 1, l.offsets)
    IN  IF l.err # "" THEN [err |-> l.err, out |-> << >>]
        ELSE IF Len(keysOrig) * 8 # BLen(indexOrig)
                \/ BLen(indexOrig) # BLen(indexId)
                \/ BLen(indexId) # BLen(indexName)
        THEN [err |-> "indexes have inconsistent length", out |-> << >>]
        ELSE [err |-> "",
              out |-> WriteResult(Len(keysOrig), indexOrig, indexId,
                                  indexName, l.data)]

\* SerializePasswds(w, pws), given the results byId and byName of its two
\* sort.Slice calls; out is what was written to w
SerializePasswdsWith(pws, byId, byName) ==
    SerializeRest(SerializeLoop([k \in 1..Len(pws) |-> SerializePasswd(pws[k])],
                                pws, 1, << >>, << >>),
                  pws, byId, byName)

SerializeGroupsWith(grs, byId, byName) ==
    SerializeRest(SerializeLoop([k \in 1..Len(grs) |-> SerializeGroup(grs[k])],
                                [k \in 1..Len(grs) |-> toKey(grs[k])],
                                1, << >>, << >>),
                  [k \in 1..Len(grs) |-> toKey(grs[k])],
                  [k \in 1..Len(byId) |-> toKey(byId[k])],
                  [k \in 1..Len(byName) |-> toKey(byName[k])])

\* every result SerializePasswds / SerializeGroups can produce
SerializePasswds(pws) ==
    {SerializePasswdsWith(pws, byId, byName) :
        byId \in SortSlice(pws, [i, j \in DOMAIN pws |->
                                    LessUid(pws[i], pws[j])]),
        byName \in SortSlice(pws, [i, j \in DOMAIN pws |->
                                      LessName(pws[i], pws[j])])}

SerializeGroups(grs) ==
    {SerializeGroupsWith(grs, byId, byName) :
        byId \in SortSlice(grs, [i, j \in DOMAIN grs |->
                                    LessGid(grs[i], grs[j])]),
        byName \in SortSlice(grs, [i, j \in DOMAIN grs |->
                                      LessName(grs[i], grs[j])])}

(***************************************************************************)
(* The reader (C): reading a mapped file F                                 *)
(***************************************************************************)
\* sizeof(struct header), sizeof(struct passwd_entry),
\* sizeof(struct group_entry) (all packed) and sizeof(char *)
HeaderSize == 56

PasswdEntrySize == 26

GroupEntrySize == 16

SizeofPtr == 8

\* A mapping F of a file with content b: F.r is b, F.a the same bytes as a
\* plain sequence, for reading at an offset
RECURSIVE FlatFrom(_, _)
FlatFrom(b, k) ==
    IF k > Len(b) THEN << >>
    ELSE [i \in 1..b[k][2] |-> b[k][1]] \o FlatFrom(b, k + 1)

View(b) == [r |-> b, a |-> FlatFrom(b, 1)]

\* the byte at offset off of a mapping; the tail of the last page reads 0
ByteAt(F, off) == IF off < Len(F.a) THEN F.a[off + 1] ELSE 0

\* a uint64_t / uint16_t field at offset off (little-endian host)
ReadU64(F, off) == [k \in 1..8 |-> ByteAt(F, off + k - 1)]

ReadU16(F, off) == ByteAt(F, off) + 256 * ByteAt(F, off + 1)

\* a uint64_t used as an offset or a count; a value of 2^31 or more lies
\* beyond every mapping
U64ToInt(v) ==
    IF v[5] # 0 \/ v[6] # 0 \/ v[7] # 0 \/ v[8] # 0 \/ v[4] >= 128
    THEN 2147483647
    ELSE v[1] + 256 * v[2] + 65536 * v[3] + 16777216 * v[4]

\* the C string starting at offset off of b
CStr(b, off) ==
    LET d == BDrop(b, off)
        i == IndexByte(d, 0)
    IN  IF i < 0 THEN d ELSE BTake(d, i)

\* fields of struct header
h_magic(F) == BTake(F.r, 8)

\* a version field that reads 1 whatever the file has there
VersionOne(F) == U64FromInt(1)

h_version(F) == ReadU64(F, 8)

h_count(F) == U64ToInt(ReadU64(F, 16))

h_off_orig_index(F) == U64ToInt(ReadU64(F, 24))

h_off_id_index(F) == U64ToInt(ReadU64(F, 32))

h_off_name_index(F) == U64ToInt(ReadU64(F, 40))

h_off_data(F) == U64ToInt(ReadU64(F, 48))

\* (uid_t)x, (gid_t)x of a uint64_t, and (uint64_t)x of a uid_t / gid_t
ToId32(v) == SubSeq(v, 1, 4)

FromId32(v) == v \o <<0, 0, 0, 0>>

NoResult == [ok |-> FALSE, res |-> << >>, ptrs |-> << >>, buf |-> << >>]

\* entry_to_passwd for the entry at offset e of F: res is the struct
\* passwd, each pointer given as its offset in the buffer tmp, and buf the
\* bytes written to tmp
entry_to_passwd(F, e, space) ==
    LET data_size == ReadU16(F, e + 24)
    IN  IF space < data_size THEN NoResult
        ELSE [ok |-> TRUE,
              res |-> [id |-> ToId32(ReadU64(F, e)),
                       gid |-> ToId32(ReadU64(F, e + 8)),
                       name |-> 0,
                       passwd |-> ReadU16(F, e + 16),
                       gecos |-> ReadU16(F, e + 18),
                       dir |-> ReadU16(F, e + 20),
                       shell |-> ReadU16(F, e + 22)],
              ptrs |-> << >>,
              buf |-> BSub(F.r, e + PasswdEntrySize, data_size)]

\* entry_to_group: tmp holds the array groups (ptrs: the offset in tmp each
\* element points to, -1 for NULL) followed by the copy of data (buf);
\* gr_mem is tmp itself
entry_to_group(F, e, space) ==
    LET mem_count == ReadU16(F, e + 12)
        data_size == ReadU16(F, e + 14)
        mem_size == (mem_count + 1) * SizeofPtr
        offs_mem == e + GroupEntrySize + ReadU16(F, e + 10)
    IN  IF space < data_size + mem_size THEN NoResult
        ELSE [ok |-> TRUE,
              res |-> [id |-> ToId32(ReadU64(F, e)),
                       name |-> mem_size + 0,
                       passwd |-> mem_size + ReadU16(F, e + 8),
                       mem |-> 0],
              ptrs |-> [i \in 1..(mem_count + 1) |->
                           IF i = mem_count + 1 THEN -1
                           ELSE mem_size + ReadU16(F, offs_mem + 2 * (i - 1))],
              buf |-> BSub(F.r, e + GroupEntrySize, data_size)]

\* strcmp(a, b) of two C strings
strcmp(a, b) == BCmp(a, b)

\* bsearch_callback(key, y): y is the offset in F of an index element
bsearch_callback(F, key, y) ==
    LET offset == U64ToInt(ReadU64(F, y))
        member == key.data + offset + key.offset
    IN  IF key.byName THEN strcmp(key.name, CStr(F.r, member))
        ELSE CmpU64(key.id, ReadU64(F, member))

\* bsearch(3) over the elements l .. u-1 of the index at offset base: the
\* offset in F of the matching element, -1 for NULL
RECURSIVE bsearch(_, _, _, _, _)
bsearch(F, key, base, l, u) ==
    IF l >= u THEN -1
    ELSE LET idx == (l + u) \div 2
             c == bsearch_callback(F, key, base + 8 * idx)
         IN  IF c < 0 THEN bsearch(F, key, base, l, idx)
             ELSE IF c > 0 THEN bsearch(F, key, base, idx + 1, u)
             ELSE base + 8 * idx

search(F, key, index, count) == bsearch(F, key, index, 0, count)

(***************************************************************************)
(* State                                                                   *)
(***************************************************************************)
VARIABLES
    fs,     \* the file system: target files, temporary files, state file
    tool,   \* the fetch tool (nsscash fetch): one process, run after run
    hist,   \* history of the current run of the tool (not program state)
    rd,     \* the reader: static_file and static_file_lock of pw.c and gr.c
    th,     \* the threads calling the reader
    inp     \* the input of the serializer and of the parsers

vars == <<fs, tool, hist, rd, th, inp>>

(***************************************************************************)
(* The file system                                                         *)
(*                                                                         *)
(* fs.dir maps each target path to its inode (0: no such file), fs.ino     *)
(* holds the inodes, fs.state the content of the state file (the JSON      *)
(* document, as the two maps it encodes) and fs.statetmp the temporary     *)
(* file WriteState is writing.  An inode with tmp = TRUE is linked under a *)
(* temporary name only.  fs.stray: a killed run left a temporary file.     *)
(***************************************************************************)
\* number of inodes of the file system
MaxIno == 4

NoInode ==
    [live |-> FALSE, data |-> << >>, mode |-> {}, uid |-> 0, gid |-> 0,
     tmp |-> FALSE]

WriteBits == {"uw", "gw", "ow"}                   \* os.FileMode(0222)

\* the inodes a reader has open or mapped
RefsOf(r, h) ==
    {r.file[k].fd : k \in DOMAIN r.file}
        \cup {r.file[k].header : k \in DOMAIN r.file}
        \cup {h[t].f.fd : t \in DOMAIN h}
        \cup {h[t].f.header : t \in DOMAIN h}

Refs == RefsOf(rd, th)

\* an inode is released once no name and no open file or mapping refers
\* to it
Gc(f, refs) ==
    [f EXCEPT !.ino =
        [n \in 1..MaxIno |->
            IF f.ino[n].live
                   /\ (f.ino[n].tmp \/ n \in refs
                          \/ \E p \in DOMAIN f.dir : f.dir[p] = n)
            THEN f.ino[n] ELSE NoInode]]

FreeInos(f) == {n \in 1..MaxIno : ~f.ino[n].live}

\* renameio.TempFile: a new, empty file of mode 0600 under a temporary
\* name in the directory of the target; n is the inode it gets
FsTempFile(f, n) ==
    [f EXCEPT !.ino[n] = [live |-> TRUE, data |-> << >>,
                          mode |-> {"ur", "uw"}, uid |-> 0, gid |-> 0,
                          tmp |-> TRUE]]

FsChmod(f, n, mode) == [f EXCEPT !.ino[n].mode = mode]

FsChown(f, n, uid, gid) == [f EXCEPT !.ino[n].uid = uid, !.ino[n].gid = gid]

\* write(2) of bytes b at the end of the file
FsWrite(f, n, b) == [f EXCEPT !.ino[n].data = BCat(@, b)]

\* rename(2) of the temporary file n over path
FsRename(f, n, path) ==
    [f EXCEPT !.dir[path] = n, !.ino[n].tmp = FALSE]

\* os.Remove of the temporary file n
FsRemove(f, n) == [f EXCEPT !.ino[n] = NoInode]

Exists(f, path) == f.dir[path] # 0

\* os.Stat(path): what deployFile uses of it
NoStat == [mode |-> {}, uid |-> 0, gid |-> 0]

FsStat(f, path) ==
    [mode |-> f.ino[f.dir[path]].mode, uid |-> f.ino[f.dir[path]].uid,
     gid |-> f.ino[f.dir[path]].gid]

Content(f, path) == f.ino[f.dir[path]].data

(***************************************************************************)
(* The fetch tool                                                          *)
(***************************************************************************)
\* the [[file]] sections of a configuration, in declaration order
PasswdFile ==
    [Type |-> "passwd", Url |-> "http://origin/passwd", Path |-> "passwd"]

GroupFile ==
    [Type |-> "group", Url |-> "http://origin/group", Path |-> "group"]

\* a file of type plain, deployed at the second path of the file system
PlainFile ==
    [Type |-> "plain", Url |-> "http://origin/plain", Path |-> "group"]

\* the configuration the tool was given (LoadConfig)
Cfg == inp.cfg

NFiles == Len(Cfg)

\* the paths of the file system
Paths == {"passwd", "group"}

\* Go map access: the zero value for a key that is not there
MapGet(m, k, zero) == IF k \in DOMAIN m THEN m[k] ELSE zero

MapPut(m, k, v) == (k :> v) @@ m

\* checksumBytes: the hex SHA-512 of x, taken to be collision free; the
\* empty sequence is the empty string (no checksum stored)
checksumBytes(x) == <<x>>

EmptyState == [LastModified |-> << >>, Checksum |-> << >>]

\* a LoadState that starts every run from empty maps
LoadNothing(f) == EmptyState

\* LoadState: a missing state file gives empty maps
LoadState(f) == IF f.state = << >> THEN EmptyState ELSE f.state[1]

\* json.Marshal(state), as the document it encodes
MarshalState(state) == <<state>>

\* what the origin may answer to one GET: a transport error, or a status,
\* a body and maybe a Last-Modified header (lm = 0: none, or unparseable)
PwTextA == Lit(<<97, 58, 120, 58, 48, 58, 48, 58, 58, 58, 10>>)
                                                       \* a:x:0:0:::\n

PwTextB ==
    Lit(<<97, 58, 120, 58, 48, 58, 48, 58, 58, 58, 10,
          98, 58, 120, 58, 49, 58, 49, 58, 58, 58, 10>>)
                                          \* a:x:0:0:::\n b:x:1:1:::\n

PwTextInvalid == Lit(<<97, 58, 120, 10>>)              \* a:x\n

PwTextLarge ==
    Cat(<<Lit(<<97, 58, 120, 58, 48, 58, 48, 58>>), Rep(120, 65536),
          Lit(<<58, 58, 10>>)>>)                 \* a:x:0:0:xxx...x::\n

GrTextA == Lit(<<103, 58, 120, 58, 48, 58, 10>>)       \* g:x:0:\n

GrTextB ==
    Lit(<<103, 58, 120, 58, 48, 58, 97, 10,
          104, 58, 58, 49, 58, 97, 44, 98, 10>>)
                                             \* g:x:0:a\n h::1:a,b\n

GrTextInvalid == Lit(<<103, 58, 120, 58, 120, 58, 10>>) \* g:x:x:\n

GrTextLarge ==
    Cat(<<Lit(<<103, 58, 120, 58, 48, 58>>), Rep(120, 65536),
          Lit(<<10>>)>>)                              \* g:x:0:xxx...x\n

Bodies(type) ==
    IF type = "passwd"
    THEN {PwTextA, PwTextB, PwTextInvalid, << >>}
    ELSE {GrTextA, << >>}

Times == {1}                     \* the zero time.Time is 0

Responses(type) ==
    {[err |-> TRUE, status |-> 0, body |-> << >>, lm |-> 0]}
        \cup {[err |-> FALSE, status |-> 404, body |-> << >>, lm |-> 0]}
        \cup {[err |-> FALSE, status |-> 304, body |-> << >>, lm |-> l] :
                 l \in {0} \cup Times}
        \cup {[err |-> FALSE, status |-> 200, body |-> b, lm |-> l] :
                 b \in Bodies(type), l \in {0} \cup Times}

\* a fetchIfModified that takes the time of the request for the time of a
\* response without Last-Modified header
fetchStampsNow(t, resp) ==
    [err |-> resp.err,
     ims |-> IF t # 0 THEN "sent" ELSE "not sent",
     since |-> t,
     status |-> resp.status,
     body |-> resp.body,
     t |-> IF ~resp.err /\ resp.lm # 0 THEN resp.lm ELSE 1]

\* a fetchIfModified that never sends If-Modified-Since
fetchUnconditional(t, resp) ==
    [err |-> resp.err, ims |-> "not sent", since |-> 0,
     status |-> resp.status, body |-> resp.body,
     t |-> IF ~resp.err /\ resp.lm # 0 THEN resp.lm ELSE t]

\* fetchIfModified(url, ..., &t) answered by resp: the request carries
\* If-Modified-Since iff t is not zero, and since is the time it carries
\* then (times are whole seconds, which the header can say); t becomes the
\* Last-Modified header of any response that has a parseable one
fetchIfModified(t, resp) ==
    [err |-> resp.err,
     ims |-> IF t # 0 THEN "sent" ELSE "not sent",
     since |-> t,
     status |-> resp.status,
     body |-> resp.body,
     t |-> IF ~resp.err /\ resp.lm # 0 THEN resp.lm ELSE t]

\* a conversion without the safety checks: an empty response and a file
\* without records are used as any other
ConvertBodyAny(type, body) ==
    IF type = "plain"
    THEN {[err |-> "", body |-> body]}
    ELSE IF type = "passwd"
    THEN LET pws == ParsePasswds(body)
         IN  IF pws.err # "" THEN {[err |-> pws.err, body |-> << >>]}
             ELSE {[err |-> x.err, body |-> x.out] :
                      x \in SerializePasswds(pws.res)}
    ELSE LET grs == ParseGroups(body)
         IN  IF grs.err # "" THEN {[err |-> grs.err, body |-> << >>]}
             ELSE {[err |-> x.err, body |-> x.out] :
                      x \in SerializeGroups(grs.res)}

\* the part of fetchFile that turns the body of a 200 response into
\* file.body: the possible results [err, body]
ConvertBody(type, body) ==
    IF type = "plain"
    THEN {IF BLen(body) = 0
          THEN [err |-> "refusing to use empty response", body |-> << >>]
          ELSE [err |-> "", body |-> body]}
    ELSE IF type = "passwd"
    THEN LET pws == ParsePasswds(body)
         IN  IF pws.err # "" THEN {[err |-> pws.err, body |-> << >>]}
             ELSE IF Len(pws.res) = 0
             THEN {[err |-> "refusing to use empty passwd file",
                    body |-> << >>]}
             ELSE {[err |-> x.err, body |-> x.out] :
                      x \in SerializePasswds(pws.res)}
    ELSE IF type = "group"
    THEN LET grs == ParseGroups(body)
         IN  IF grs.err # "" THEN {[err |-> grs.err, body |-> << >>]}
             ELSE IF Len(grs.res) = 0
             THEN {[err |-> "refusing to use empty group file",
                    body |-> << >>]}
             ELSE {[err |-> x.err, body |-> x.out] :
                      x \in SerializeGroups(grs.res)}
    ELSE {[err |-> "unsupported file type", body |-> << >>]}

\* ConvertBody for each body the origin serves, computed once
Converted ==
    [type \in {"passwd", "group", "plain"} |->
        [b \in Bodies(type) |-> ConvertBody(type, b)]]

\* a fetchFile that sends the time of the state whatever the target holds
fetchFileTrustsState(file, state, f, resp, conv) ==
    LET t0 == MapGet(state.LastModified, file.Url, 0)
        hash == checksumBytes(Content(f, file.Path))
        oldT == t0
        r == fetchIfModified(oldT, resp)
        st1 == [state EXCEPT !.LastModified =
                    MapPut(state.LastModified, file.Url, r.t)]
    IN  IF ~Exists(f, file.Path)
        THEN [err |-> "file.path must exist", state |-> state,
              body |-> << >>, ims |-> "none", since |-> 0]
        ELSE IF r.err
        THEN [err |-> "transport", state |-> state, body |-> << >>,
              ims |-> r.ims, since |-> r.since]
        ELSE IF r.status = 304
        THEN [err |-> IF oldT = 0
                      THEN "status code 304 but did not send If-Modified-Since"
                      ELSE "",
              state |-> state, body |-> << >>, ims |-> r.ims, since |-> r.since]
        ELSE IF r.status # 200
        THEN [err |-> "status code", state |-> state, body |-> << >>,
              ims |-> r.ims, since |-> r.since]
        ELSE IF conv.err # ""
        THEN [err |-> conv.err, state |-> st1, body |-> << >>,
              ims |-> r.ims, since |-> r.since]
        ELSE [err |-> "",
              state |-> [st1 EXCEPT !.Checksum =
                            MapPut(state.Checksum, file.Url,
                                   checksumBytes(conv.body))],
              body |-> <<conv.body>>, ims |-> r.ims, since |-> r.since]

\* a fetchFile that leaves state.Checksum as it was loaded
fetchFileKeepsSum(file, state, f, resp, conv) ==
    LET t0 == MapGet(state.LastModified, file.Url, 0)
        hash == checksumBytes(Content(f, file.Path))
        oldT == IF hash # MapGet(state.Checksum, file.Url, << >>)
                THEN 0 ELSE t0
        r == fetchIfModified(oldT, resp)
        st1 == [state EXCEPT !.LastModified =
                    MapPut(state.LastModified, file.Url, r.t)]
    IN  IF ~Exists(f, file.Path)
        THEN [err |-> "file.path must exist", state |-> state,
              body |-> << >>, ims |-> "none", since |-> 0]
        ELSE IF r.err
        THEN [err |-> "transport", state |-> state, body |-> << >>,
              ims |-> r.ims, since |-> r.since]
        ELSE IF r.status = 304
        THEN [err |-> IF oldT = 0
                      THEN "status code 304 but did not send If-Modified-Since"
                      ELSE "",
              state |-> state, body |-> << >>, ims |-> r.ims, since |-> r.since]
        ELSE IF r.status # 200
        THEN [err |-> "status code", state |-> state, body |-> << >>,
              ims |-> r.ims, since |-> r.since]
        ELSE IF conv.err # ""
        THEN [err |-> conv.err, state |-> st1, body |-> << >>,
              ims |-> r.ims, since |-> r.since]
        ELSE [err |-> "",
              state |-> st1,
              body |-> <<conv.body>>, ims |-> r.ims, since |-> r.since]

\* a fetchFile that stores the Last-Modified header of a 304 response
fetchFileStores304(file, state, f, resp, conv) ==
    LET t0 == MapGet(state.LastModified, file.Url, 0)
        hash == checksumBytes(Content(f, file.Path))
        oldT == IF hash # MapGet(state.Checksum, file.Url, << >>)
                THEN 0 ELSE t0
        r == fetchIfModified(oldT, resp)
        st1 == [state EXCEPT !.LastModified =
                    MapPut(state.LastModified, file.Url, r.t)]
    IN  IF ~Exists(f, file.Path)
        THEN [err |-> "file.path must exist", state |-> state,
              body |-> << >>, ims |-> "none", since |-> 0]
        ELSE IF r.err
        THEN [err |-> "transport", state |-> state, body |-> << >>,
              ims |-> r.ims, since |-> r.since]
        ELSE IF r.status = 304
        THEN [err |-> IF oldT = 0
                      THEN "status code 304 but did not send If-Modified-Since"
                      ELSE "",
              state |-> st1, body |-> << >>, ims |-> r.ims, since |-> r.since]
        ELSE IF r.status # 200
        THEN [err |-> "status code", state |-> state, body |-> << >>,
              ims |-> r.ims, since |-> r.since]
        ELSE IF conv.err # ""
        THEN [err |-> conv.err, state |-> st1, body |-> << >>,
              ims |-> r.ims, since |-> r.since]
        ELSE [err |-> "",
              state |-> [st1 EXCEPT !.Checksum =
                            MapPut(state.Checksum, file.Url,
                                   checksumBytes(conv.body))],
              body |-> <<conv.body>>, ims |-> r.ims, since |-> r.since]

\* a fetchFile that takes every 304 response for the answer to a condition
fetchFileAny304(file, state, f, resp, conv) ==
    LET t0 == MapGet(state.LastModified, file.Url, 0)
        hash == checksumBytes(Content(f, file.Path))
        oldT == IF hash # MapGet(state.Checksum, file.Url, << >>)
                THEN 0 ELSE t0
        r == fetchIfModified(oldT, resp)
        st1 == [state EXCEPT !.LastModified =
                    MapPut(state.LastModified, file.Url, r.t)]
    IN  IF ~Exists(f, file.Path)
        THEN [err |-> "file.path must exist", state |-> state,
              body |-> << >>, ims |-> "none", since |-> 0]
        ELSE IF r.err
        THEN [err |-> "transport", state |-> state, body |-> << >>,
              ims |-> r.ims, since |-> r.since]
        ELSE IF r.status = 304
        THEN [err |-> "",
              state |-> state, body |-> << >>, ims |-> r.ims, since |-> r.since]
        ELSE IF r.status # 200
        THEN [err |-> "status code", state |-> state, body |-> << >>,
              ims |-> r.ims, since |-> r.since]
        ELSE IF conv.err # ""
        THEN [err |-> conv.err, state |-> st1, body |-> << >>,
              ims |-> r.ims, since |-> r.since]
        ELSE [err |-> "",
              state |-> [st1 EXCEPT !.Checksum =
                            MapPut(state.Checksum, file.Url,
                                   checksumBytes(conv.body))],
              body |-> <<conv.body>>, ims |-> r.ims, since |-> r.since]

\* a fetchFile that asks the origin also when the target is not there
fetchFileNoCheck(file, state, f, resp, conv) ==
    LET t0 == MapGet(state.LastModified, file.Url, 0)
        hash == IF Exists(f, file.Path)
                THEN checksumBytes(Content(f, file.Path)) ELSE << >>
        oldT == IF hash # MapGet(state.Checksum, file.Url, << >>)
                THEN 0 ELSE t0
        r == fetchIfModified(oldT, resp)
        st1 == [state EXCEPT !.LastModified =
                    MapPut(state.LastModified, file.Url, r.t)]
    IN  IF r.err
        THEN [err |-> "transport", state |-> state, body |-> << >>,
              ims |-> r.ims, since |-> r.since]
        ELSE IF r.status = 304
        THEN [err |-> IF oldT = 0
                      THEN "status code 304 but did not send If-Modified-Since"
                      ELSE "",
              state |-> state, body |-> << >>, ims |-> r.ims, since |-> r.since]
        ELSE IF r.status # 200
        THEN [err |-> "status code", state |-> state, body |-> << >>,
              ims |-> r.ims, since |-> r.since]
        ELSE IF conv.err # ""
        THEN [err |-> conv.err, state |-> st1, body |-> << >>,
              ims |-> r.ims, since |-> r.since]
        ELSE [err |-> "",
              state |-> [st1 EXCEPT !.Checksum =
                            MapPut(state.Checksum, file.Url,
                                   checksumBytes(conv.body))],
              body |-> <<conv.body>>, ims |-> r.ims, since |-> r.since]

\* fetchFile(file, state) with the origin answering resp and conv the
\* result of the conversion: [err, state, body, ims]; body is << >> for
\* nil and <<b>> for the bytes b, ims tells whether If-Modified-Since
\* was sent ("sent", "not sent"; "none": no request was made)
fetchFile(file, state, f, resp, conv) ==
    LET t0 == MapGet(state.LastModified, file.Url, 0)
        hash == checksumBytes(Content(f, file.Path))
        oldT == IF hash # MapGet(state.Checksum, file.Url, << >>)
                THEN 0 ELSE t0
        r == fetchIfModified(oldT, resp)
        st1 == [state EXCEPT !.LastModified =
                    MapPut(state.LastModified, file.Url, r.t)]
    IN  IF ~Exists(f, file.Path)
        THEN [err |-> "file.path must exist", state |-> state,
              body |-> << >>, ims |-> "none", since |-> 0]
        ELSE IF r.err
        THEN [err |-> "transport", state |-> state, body |-> << >>,
              ims |-> r.ims, since |-> r.since]
        ELSE IF r.status = 304
        THEN [err |-> IF oldT = 0
                      THEN "status code 304 but did not send If-Modified-Since"
                      ELSE "",
              state |-> state, body |-> << >>, ims |-> r.ims, since |-> r.since]
        ELSE IF r.status # 200
        THEN [err |-> "status code", state |-> state, body |-> << >>,
              ims |-> r.ims, since |-> r.since]
        ELSE IF conv.err # ""
        THEN [err |-> conv.err, state |-> st1, body |-> << >>,
              ims |-> r.ims, since |-> r.since]
        ELSE [err |-> "",
              state |-> [st1 EXCEPT !.Checksum =
                            MapPut(state.Checksum, file.Url,
                                   checksumBytes(conv.body))],
              body |-> <<conv.body>>, ims |-> r.ims, since |-> r.since]

\* variants of handleFiles that the properties below must tell from the
\* real one: one that goes on after a failed fetchFile, ...
handleFilesIgnoreFetchErr(phase, i, err) ==
    IF err # "" /\ phase = "deploy" THEN [pc |-> "failed", i |-> i]
    ELSE IF phase = "fetch"
    THEN IF i < NFiles THEN [pc |-> "fetch", i |-> i + 1]
                       ELSE [pc |-> "deploy", i |-> 1]
    ELSE IF i < NFiles THEN [pc |-> "deploy", i |-> i + 1]
                       ELSE [pc |-> "writestate", i |-> 0]

\* ... one with a single loop, deploying each file right after its fetch,
handleFilesInterleaved(phase, i, err) ==
    IF err # "" THEN [pc |-> "failed", i |-> i]
    ELSE IF phase = "fetch" THEN [pc |-> "deploy", i |-> i]
    ELSE IF i < NFiles THEN [pc |-> "fetch", i |-> i + 1]
                       ELSE [pc |-> "writestate", i |-> 0]

\* ... and one that goes on after a failed deployFile
handleFilesIgnoreDeployErr(phase, i, err) ==
    IF err # "" /\ phase = "fetch" THEN [pc |-> "failed", i |-> i]
    ELSE IF phase = "fetch"
    THEN IF i < NFiles THEN [pc |-> "fetch", i |-> i + 1]
                       ELSE [pc |-> "deploy", i |-> 1]
    ELSE IF i < NFiles THEN [pc |-> "deploy", i |-> i + 1]
                       ELSE [pc |-> "writestate", i |-> 0]

\* a deployFile that writes to the target itself
WriteInPlace(t, f, path) == f.dir[path]

\* handleFiles and mainFetch: where the tool goes once the call of phase
\* ("fetch": fetchFile, "deploy": deployFile) for file i has returned err
handleFilesNext(phase, i, err) ==
    IF err # "" THEN [pc |-> "failed", i |-> i]
    ELSE IF phase = "fetch"
    THEN IF i < NFiles THEN [pc |-> "fetch", i |-> i + 1]
                       ELSE [pc |-> "deploy", i |-> 1]
    ELSE IF i < NFiles THEN [pc |-> "deploy", i |-> i + 1]
                       ELSE [pc |-> "writestate", i |-> 0]

\* the file deployFile writes file.body to: the temporary file
WriteTarget(t, f, path) == t.f

\* what the run found on disk when it started
Snapshot(f) ==
    [dir |-> f.dir,
     file |-> [p \in Paths |-> IF Exists(f, p) THEN <<f.ino[f.dir[p]]>>
                               ELSE << >>],
     state |-> f.state]

Event(ev, i, err, ims) == [ev |-> ev, i |-> i, err |-> err, ims |-> ims]

\* hist.on: the history is kept (it is not where it is not needed)
LogAppend(log, ev) == IF hist.on THEN Append(log, ev) ELSE log

Logged(ev) == LogAppend(hist.log, ev)

Started(f) == IF hist.on THEN Snapshot(f) ELSE hist.start

\* the memory of the process is gone once it has exited
AtExit(t) ==
    IF t.pc \in {"done", "failed", "killed"}
    THEN [pc |-> t.pc, i |-> 1, step |-> "start", state |-> EmptyState,
          body |-> [i \in 1..NFiles |-> << >>], f |-> 0, stat |-> NoStat]
    ELSE t

\* mainFetch: LoadConfig, LoadState, then handleFiles
Start ==
    /\ tool.pc \in {"idle", "done", "failed", "killed"}
    /\ tool' = [pc |-> "fetch", i |-> 1, step |-> "start",
                state |-> LoadState(fs),
                body |-> [i \in 1..NFiles |-> << >>],
                f |-> 0, stat |-> NoStat]
    /\ hist' = [hist EXCEPT !.start = Started(fs), !.log = << >>,
                            !.reqs = << >>,
                            !.body = [i \in 1..NFiles |-> << >>],
                            !.killed = "no"]
    /\ UNCHANGED <<fs, rd, th, inp>>

\* the call fetchFile(&cfg.Files[i], state) of the first loop of handleFiles
FetchFile ==
    /\ tool.pc = "fetch"
    /\ \E resp \in Responses(Cfg[tool.i].Type) :
       \E conv \in IF ~resp.err /\ resp.status = 200
                   THEN Converted[Cfg[tool.i].Type][resp.body]
                   ELSE {[err |-> "", body |-> << >>]} :
          LET r == fetchFile(Cfg[tool.i], tool.state, fs, resp, conv)
              nxt == handleFilesNext("fetch", tool.i, r.err)
          IN  /\ tool' = AtExit([tool EXCEPT !.pc = nxt.pc, !.i = nxt.i,
                                             !.step = "start",
                                             !.state = r.state,
                                             !.body[tool.i] = r.body])
              /\ hist' = [hist EXCEPT
                            !.log = Logged(Event("fetch", tool.i, r.err, r.ims)),
                            !.reqs = IF hist.on /\ r.ims # "none"
                                     THEN Append(@, [i |-> tool.i,
                                                     since |-> r.since,
                                                     status |-> resp.status,
                                                     lm |-> resp.lm,
                                                     body |-> resp.body])
                                     ELSE @,
                            !.body[tool.i] = IF hist.on THEN r.body ELSE @]
    /\ UNCHANGED <<fs, rd, th, inp>>

\* second loop of handleFiles: "No update required"
DeploySkip ==
    /\ tool.pc = "deploy" /\ tool.step = "start"
    /\ tool.body[tool.i] = << >>
    /\ LET nxt == handleFilesNext("deploy", tool.i, "")
       IN  tool' = [tool EXCEPT !.pc = nxt.pc, !.i = nxt.i, !.step = "start"]
    /\ UNCHANGED <<fs, hist, rd, th, inp>>

\* a return of deployFile without the deferred f.Cleanup()
DeployReturnNoCleanup(f, log, err) ==
    LET nxt == handleFilesNext("deploy", tool.i, err)
    IN  /\ fs' = Gc(f, Refs)
        /\ tool' = AtExit([tool EXCEPT !.pc = nxt.pc, !.i = nxt.i,
                                       !.step = "start", !.f = 0,
                                       !.stat = NoStat])
        /\ hist' = [hist EXCEPT
                      !.log = LogAppend(log,
                                        Event("deployed", tool.i, err, "none"))]

\* deployFile returns err: the deferred f.Cleanup() removes the temporary
\* file unless it was renamed; log is the history up to the return
DeployReturn(f, log, err) ==
    LET nxt == handleFilesNext("deploy", tool.i, err)
    IN  /\ fs' = Gc(IF tool.f # 0 /\ f.ino[tool.f].tmp
                    THEN FsRemove(f, tool.f) ELSE f, Refs)
        /\ tool' = AtExit([tool EXCEPT !.pc = nxt.pc, !.i = nxt.i,
                                       !.step = "start", !.f = 0,
                                       !.stat = NoStat])
        /\ hist' = [hist EXCEPT
                      !.log = LogAppend(log,
                                        Event("deployed", tool.i, err, "none"))]

\* deployFile: the safety check and renameio.TempFile
DeployBegin ==
    /\ tool.pc = "deploy" /\ tool.step = "start"
    /\ tool.body[tool.i] # << >>
    /\ LET called == Logged(Event("deploy", tool.i, "", "none"))
       IN  \/ /\ BLen(tool.body[tool.i][1]) = 0
              /\ DeployReturn(fs, called, "refusing to write empty file")
           \/ /\ BLen(tool.body[tool.i][1]) # 0
              /\ DeployReturn(fs, called, "TempFile")
           \/ /\ BLen(tool.body[tool.i][1]) # 0
              /\ FreeInos(fs) # {}
              /\ LET n == CHOOSE n \in FreeInos(fs) :
                              \A m \in FreeInos(fs) : n <= m
                 IN  /\ fs' = FsTempFile(fs, n)
                     /\ tool' = [tool EXCEPT !.step = "stat", !.f = n]
              /\ hist' = [hist EXCEPT !.log = called]
    /\ UNCHANGED <<rd, th, inp>>

\* os.Stat(file.Path)
DeployStat ==
    /\ tool.pc = "deploy" /\ tool.step = "stat"
    /\ IF Exists(fs, Cfg[tool.i].Path)
       THEN /\ tool' = [tool EXCEPT !.step = "chmod",
                                    !.stat = FsStat(fs, Cfg[tool.i].Path)]
            /\ UNCHANGED <<fs, hist>>
       ELSE DeployReturn(fs, hist.log, "file.path must exist")
    /\ UNCHANGED <<rd, th, inp>>

\* f.Chmod(stat.Mode() & ^os.FileMode(0222))
DeployChmod ==
    /\ tool.pc = "deploy" /\ tool.step = "chmod"
    /\ \/ /\ fs' = FsChmod(fs, tool.f, tool.stat.mode \ WriteBits)
          /\ tool' = [tool EXCEPT !.step = "chown"]
          /\ hist' = hist
       \/ DeployReturn(fs, hist.log, "Chmod")
    /\ UNCHANGED <<rd, th, inp>>

\* the same step of the deployFile of file.go, f.Chmod(stat.Mode()), which
\* differs from the one above in the mode it gives the file (and in syncing
\* the file where the other syncs the directory)
DeployChmodAll ==
    /\ tool.pc = "deploy" /\ tool.step = "chmod"
    /\ \/ /\ fs' = FsChmod(fs, tool.f, tool.stat.mode)
          /\ tool' = [tool EXCEPT !.step = "chown"]
          /\ hist' = hist
       \/ DeployReturn(fs, hist.log, "Chmod")
    /\ UNCHANGED <<rd, th, inp>>

\* f.Chown(int(sys.Uid), int(sys.Gid))
DeployChown ==
    /\ tool.pc = "deploy" /\ tool.step = "chown"
    /\ \/ /\ fs' = FsChown(fs, tool.f, tool.stat.uid, tool.stat.gid)
          /\ tool' = [tool EXCEPT !.step = "write"]
          /\ hist' = hist
       \/ DeployReturn(fs, hist.log, "Chown")
    /\ UNCHANGED <<rd, th, inp>>

\* f.Write(file.body), which the kernel may serve in two parts: the first
\* half of the body
DeployWrite ==
    /\ tool.pc = "deploy" /\ tool.step = "write"
    /\ LET b == tool.body[tool.i][1]
           n == WriteTarget(tool, fs, Cfg[tool.i].Path)
       IN  \/ /\ fs' = FsWrite(fs, n, BTake(b, BLen(b) \div 2))
              /\ tool' = [tool EXCEPT !.step = "write2"]
              /\ hist' = hist
           \/ DeployReturn(fs, hist.log, "Write")
    /\ UNCHANGED <<rd, th, inp>>

\* ... and the rest of it
DeployWrite2 ==
    /\ tool.pc = "deploy" /\ tool.step = "write2"
    /\ LET b == tool.body[tool.i][1]
           n == WriteTarget(tool, fs, Cfg[tool.i].Path)
       IN  \/ /\ fs' = FsWrite(fs, n, BDrop(b, BLen(b) \div 2))
              /\ tool' = [tool EXCEPT !.step = "replace"]
              /\ hist' = hist
           \/ DeployReturn(fs, hist.log, "Write")
    /\ UNCHANGED <<rd, th, inp>>

\* f.CloseAtomicallyReplace(): fsync, close, rename over file.Path
DeployReplace ==
    /\ tool.pc = "deploy" /\ tool.step = "replace"
    /\ \/ /\ fs' = Gc(FsRename(fs, tool.f, Cfg[tool.i].Path), Refs)
          /\ tool' = [tool EXCEPT !.step = "sync"]
          /\ hist' = [hist EXCEPT
                        !.log = Logged(Event("replaced", tool.i, "", "none"))]
       \/ DeployReturn(fs, hist.log, "CloseAtomicallyReplace")
    /\ UNCHANGED <<rd, th, inp>>

\* syncPath(filepath.Dir(file.Path)), the last statement of deployFile
DeploySync ==
    /\ tool.pc = "deploy" /\ tool.step = "sync"
    /\ \E err \in {"", "syncPath"} : DeployReturn(fs, hist.log, err)
    /\ UNCHANGED <<rd, th, inp>>

\* WriteState returns err (the deferred Cleanup removes a temporary file
\* that was not renamed) and with it mainFetch
WriteStateReturn(log, err) ==
    /\ fs' = [fs EXCEPT !.statetmp = "none"]
    /\ tool' = AtExit([tool EXCEPT
                          !.pc = IF err = "" THEN "done" ELSE "failed",
                          !.step = "start"])
    /\ hist' = [hist EXCEPT
                  !.log = LogAppend(log, Event("wrote", 0, err, "none"))]

\* mainFetch after handleFiles returned nil: WriteState up to
\* renameio.TempFile
WriteStateBegin ==
    /\ tool.pc = "writestate" /\ tool.step = "start"
    /\ LET called == Logged(Event("writestate", 0, "", "none"))
       IN  \/ /\ fs.statedir = "rw"
              /\ fs' = [fs EXCEPT !.statetmp = "empty"]
              /\ tool' = [tool EXCEPT !.step = "write"]
              /\ hist' = [hist EXCEPT !.log = called]
           \/ WriteStateReturn(called, "TempFile")
    /\ UNCHANGED <<rd, th, inp>>

\* f.Write(x)
WriteStateWrite ==
    /\ tool.pc = "writestate" /\ tool.step = "write"
    /\ \/ /\ fs' = [fs EXCEPT !.statetmp = "written"]
          /\ tool' = [tool EXCEPT !.step = "replace"]
          /\ hist' = hist
       \/ WriteStateReturn(hist.log, "Write")
    /\ UNCHANGED <<rd, th, inp>>

\* f.CloseAtomicallyReplace()
WriteStateReplace ==
    /\ tool.pc = "writestate" /\ tool.step = "replace"
    /\ \/ /\ fs' = [fs EXCEPT !.statetmp = "none",
                             !.state = MarshalState(tool.state)]
          /\ tool' = [tool EXCEPT !.step = "sync"]
          /\ hist' = [hist EXCEPT
                        !.log = Logged(Event("statereplaced", 0, "", "none"))]
       \/ WriteStateReturn(hist.log, "CloseAtomicallyReplace")
    /\ UNCHANGED <<rd, th, inp>>

\* syncPath(filepath.Dir(path))
WriteStateSync ==
    /\ tool.pc = "writestate" /\ tool.step = "sync"
    /\ \E err \in {"", "syncPath"} : WriteStateReturn(hist.log, err)
    /\ UNCHANGED <<rd, th, inp>>

\* the process is killed (SIGKILL, power loss): nothing of it runs any
\* more, no deferred Cleanup; a temporary file stays behind under its
\* temporary name
Kill ==
    /\ tool.pc \in {"fetch", "deploy", "writestate"}
    /\ LET tmpf == tool.f # 0 /\ fs.ino[tool.f].tmp
       IN  fs' = Gc([fs EXCEPT
                       !.ino = IF tmpf THEN [@ EXCEPT ![tool.f] = NoInode]
                               ELSE @,
                       !.statetmp = "none",
                       !.stray = @ \/ tmpf \/ fs.statetmp # "none"], Refs)
    /\ tool' = AtExit([tool EXCEPT !.pc = "killed"])
    /\ hist' = [hist EXCEPT !.killed = IF hist.on THEN tool.step ELSE @]
    /\ UNCHANGED <<rd, th, inp>>

\* the descriptors and the mappings a process has open, by number
NoRes == [fd |-> 0, map |-> 0]

AddRes(a, b) == [fd |-> a.fd + b.fd, map |-> a.map + b.map]

(***************************************************************************)
(* The reader's state: struct file (file.h), and for each cache (pw.c,     *)
(* gr.c) static_file and static_file_lock.  rd.snap, rd.got, rd.tries and  *)
(* th[t].snap are history: the content a mapping had when it was made, the *)
(* results the enumeration returned since, and the number of consecutive   *)
(* calls that found the buffer too small.                                  *)
(***************************************************************************)
\* static struct file static_file = { .fd = -1 }
NoFile == [fd |-> -1, size |-> 0, next_index |-> 0, header |-> 0]

Kinds == {"pw", "gr"}

Threads == {1, 2}

\* NSSCASH_PASSWD_FILE, NSSCASH_GROUP_FILE
PathOf(k) == IF k = "pw" THEN "passwd" ELSE "group"

NoKey == [byName |-> FALSE, name |-> << >>, id |-> <<0, 0, 0, 0, 0, 0, 0, 0>>]

NoRet ==
    [op |-> "none", status |-> "", errno |-> "", key |-> NoKey,
     buflen |-> 0, out |-> NoResult]

NoCall ==
    [pc |-> "idle", kind |-> "pw", f |-> NoFile, key |-> NoKey,
     snap |-> << >>, ret |-> NoRet]

\* the threads of on exist (pc "off": the thread does not)
RdInit(on) ==
    /\ rd = [file |-> [k \in Kinds |-> NoFile],
             lock |-> [k \in Kinds |-> 0],
             snap |-> [k \in Kinds |-> << >>],
             got |-> [k \in Kinds |-> << >>],
             tries |-> [k \in Kinds |-> 0],
             res |-> NoRes]
    /\ th = [t \in Threads |->
                IF t \in on THEN NoCall ELSE [NoCall EXCEPT !.pc = "off"]]

\* the target files as the administrator created them, no state file;
\* statedir tells whether the directory of the state file can be written
FsInit(statedir) ==
    [dir |-> [p \in Paths |-> IF p = "passwd" THEN 1 ELSE 2],
     ino |-> [n \in 1..MaxIno |->
                IF n = 1
                THEN [live |-> TRUE, data |-> << >>,
                      mode |-> {"ur", "uw", "gr", "or"},
                      uid |-> 0, gid |-> 0, tmp |-> FALSE]
                ELSE IF n = 2
                THEN [live |-> TRUE, data |-> << >>,
                      mode |-> {"ur", "uw", "gr", "gw", "or"},
                      uid |-> 0, gid |-> 1, tmp |-> FALSE]
                ELSE NoInode],
     state |-> << >>, statetmp |-> "none", statedir |-> statedir,
     stray |-> FALSE]

\* no set{pw,gr}ent was observed: the file at the cache path at the time of
\* the last one is recorded by the specifications that need it
NotSet == [set |-> FALSE, data |-> << >>, prev |-> "", idx |-> 0]

ToolInit ==
    [pc |-> "idle", i |-> 1, step |-> "start", state |-> EmptyState,
     body |-> [i \in 1..NFiles |-> << >>], f |-> 0, stat |-> NoStat]

Init ==
    /\ inp = [kind |-> "none", cfg |-> <<PasswdFile, GroupFile>>,
              keys |-> {}, enum |-> FALSE, buflens |-> {}, src |-> << >>]
    /\ fs = FsInit("rw")
    /\ tool = ToolInit
    /\ hist = [on |-> TRUE, start |-> Snapshot(fs), log |-> << >>,
               body |-> [i \in 1..NFiles |-> << >>], killed |-> "no",
               list |-> << >>, reqs |-> << >>, atset |-> NotSet]
    /\ RdInit({1})

Next ==
    \/ Start
    \/ FetchFile
    \/ DeploySkip
    \/ DeployBegin
    \/ DeployStat
    \/ DeployChmod
    \/ DeployChown
    \/ DeployWrite
    \/ DeployWrite2
    \/ DeployReplace
    \/ DeploySync
    \/ WriteStateBegin
    \/ WriteStateWrite
    \/ WriteStateReplace
    \/ WriteStateSync
    \/ Kill

\* the fetch tool, run any number of times, each run possibly killed
Spec == Init /\ [][Next]_vars

(***************************************************************************)
(* Properties of the fetch pipeline                                        *)
(***************************************************************************)
Events == {hist.log[k] : k \in DOMAIN hist.log}

FetchOk(i) == \E e \in Events : e.ev = "fetch" /\ e.i = i /\ e.err = ""

FetchFailed == \E e \in Events : e.ev = "fetch" /\ e.err # ""

Happened(ev) == \E e \in Events : e.ev = ev

\* no target path differs from what the run found: same inode, same
\* content, mode and owner
TargetsUntouched ==
    /\ fs.dir = hist.start.dir
    /\ Snapshot(fs).file = hist.start.file

\* C1: if fetchFile failed for any file of the run, no configured target
\* path has been modified by the run (also not the paths of files whose
\* fetch had succeeded), no deployFile was called, and the state file is
\* what it was when the run started.
C1_FetchFailureChangesNothing ==
    FetchFailed =>
        /\ TargetsUntouched
        /\ fs.state = hist.start.state
        /\ ~Happened("deploy") /\ ~Happened("writestate")

\* the second fetch failed after the first had fetched a new body, in a run
\* that found a state file
C1_Witness ==
    /\ tool.pc = "failed"
    /\ Len(hist.log) = 2
    /\ hist.log[1] = Event("fetch", 1, "", "sent")
    /\ hist.log[2].ev = "fetch" /\ hist.log[2].err = "status code"
    /\ hist.body[1] # << >>
    /\ Content(fs, Cfg[1].Path) # hist.body[1][1]
    /\ hist.start.state # << >>

\* C2: the events of a run start with the successful fetches of the files
\* in declaration order; deployFile is called, and a target replaced, only
\* after fetchFile returned without error for every file, and while a
\* fetch is outstanding no target path differs from its state at the start
\* of the run.
C2_DeployAfterAllFetches ==
    /\ \A k \in DOMAIN hist.log :
          IF k <= NFiles
          THEN hist.log[k].ev = "fetch" /\ hist.log[k].i = k
                  /\ (k < Len(hist.log) => hist.log[k].err = "")
          ELSE hist.log[k].ev # "fetch"
                  /\ \A i \in 1..NFiles : hist.log[i].err = ""
    /\ tool.pc = "fetch" => TargetsUntouched /\ Len(hist.log) = tool.i - 1
    /\ ~TargetsUntouched => \A i \in 1..NFiles : FetchOk(i)

\* the first deployFile call of a run is under way, for the second file
\* (the first one was not modified)
C2_Witness ==
    /\ tool.pc = "deploy" /\ tool.i = 2 /\ tool.step = "write2"
    /\ hist.body[1] = << >>
    /\ Len(hist.log) = NFiles + 1
    /\ hist.log[NFiles + 1].ev = "deploy"

\* every fetch and every deploy of the run returned without error
AllSucceeded ==
    /\ \A i \in 1..NFiles : FetchOk(i)
    /\ \A e \in Events : e.ev \in {"fetch", "deployed"} => e.err = ""
    /\ \A i \in 1..NFiles :
          hist.body[i] # << >> =>
              \E e \in Events : e.ev = "deployed" /\ e.i = i

\* C3: WriteState is called only after every fetch and every deploy of the
\* run succeeded; once it has replaced the state file nothing on disk
\* changes any more in that run; and a run in which WriteState was not
\* called leaves the state file as the run found it (or absent).
C3_StateWrittenLast ==
    /\ [](/\ Happened("writestate") => AllSucceeded
          /\ tool.pc = "writestate" => AllSucceeded
          /\ ~Happened("writestate") =>
                fs.state = hist.start.state /\ fs.statetmp = "none")
    /\ [][Happened("statereplaced") => fs' = fs]_vars

\* a run replaced a state file with a different one after deploying a file
C3_Witness ==
    /\ tool.pc = "done"
    /\ Happened("statereplaced") /\ Happened("replaced")
    /\ hist.start.state # << >>
    /\ fs.state # hist.start.state

\* a run aborted by a failing deployFile after it replaced the first file
C3_WitnessAbort ==
    /\ tool.pc = "failed"
    /\ Happened("replaced") /\ ~Happened("writestate")
    /\ hist.start.state # << >>

\* C4: at every instant of a run, also after it was killed at any step,
\* the content at each target path is either the complete content the run
\* found there or the complete new body fetched for it, never empty (if it
\* was not), partial or mixed.
C4_OldOrNewContent ==
    \A i \in 1..NFiles :
        LET old == hist.start.file[Cfg[i].Path][1].data
            c == Content(fs, Cfg[i].Path)
        IN  /\ Exists(fs, Cfg[i].Path)
            /\ \/ c = old
               \/ hist.body[i] # << >> /\ c = hist.body[i][1]

\* the run was killed while the temporary file held half of the new body,
\* the path still holding the previous, different cache
C4_Witness ==
    /\ tool.pc = "killed" /\ hist.killed = "write2"
    /\ fs.stray
    /\ \E i \in 1..NFiles :
          /\ hist.log[Len(hist.log)] = Event("deploy", i, "", "none")
          /\ BLen(Content(fs, Cfg[i].Path)) > 0
          /\ Content(fs, Cfg[i].Path) # hist.body[i][1]

(***************************************************************************)
(* The reader: the NSS entry points of pw.c (k = "pw") and gr.c (k = "gr") *)
(***************************************************************************)
MAGIC == Lit(<<78, 83, 83, 45, 67, 65, 83, 72>>)          \* "NSS-CASH"

\* a mapping that follows the path instead of the file it was made of
MappedAtPath(f, m, path) == View(Content(f, path))

\* the bytes seen through the mapping m->header (MAP_PRIVATE of the file
\* that was open()ed, which nothing writes to)
MappedData(f, m, path) == View(f.ino[m.header].data)

\* an unmap_file that leaves the mapping and the descriptor as they are
KeepMapped(m) == m

\* an unmap_file that calls neither munmap nor close
KeepOpen(m, res) == res

\* the munmap and the close of unmap_file(f), in a process that has res open
Release(m, res) ==
    [fd |-> IF m.fd >= 0 THEN res.fd - 1 ELSE res.fd,
     map |-> IF m.header # 0 THEN res.map - 1 ELSE res.map]

\* errno after unmap_file(f) when it was e before: munmap and close may
\* leave any value in it
ErrnoAfterUnmap(m, e) ==
    IF m.header # 0 \/ m.fd >= 0 THEN "unspecified" ELSE e

\* a fail path that returns with the errno unmap_file left
NoSaveErrno(saved, now) == now

\* int save_errno = errno; unmap_file(f); errno = save_errno;
save_errno(saved, now) == saved

\* unmap_file(f)
unmap_file(m) == [m EXCEPT !.header = 0, !.fd = -1]

\* map_file(path, f): [ok, file, errno]; file is *f when it returns
map_file(f, path) ==
    LET zero == [fd |-> 0, size |-> 0, next_index |-> 0, header |-> 0]
        n == f.dir[path]
        F == View(f.ino[n].data)
        opened == [zero EXCEPT !.fd = n, !.size = Len(F.a)]
        mapped == [opened EXCEPT !.header = n]
        noent == [zero EXCEPT !.fd = -1]
        fd1 == [fd |-> 1, map |-> 0]
        map1 == [fd |-> 1, map |-> 1]
    IN  IF ~Exists(f, path)
        THEN [ok |-> FALSE, file |-> unmap_file(noent),
              errno |-> save_errno("ENOENT", ErrnoAfterUnmap(noent, "ENOENT")),
              res |-> Release(noent, NoRes)]
        ELSE IF opened.size = 0
        THEN [ok |-> FALSE, file |-> unmap_file(opened),
              errno |-> save_errno("EINVAL", ErrnoAfterUnmap(opened, "EINVAL")),
              res |-> Release(opened, fd1)]
        ELSE IF h_magic(F) # MAGIC \/ h_version(F) # U64FromInt(1)
        THEN [ok |-> FALSE, file |-> unmap_file(mapped),
              errno |-> save_errno("EINVAL", ErrnoAfterUnmap(mapped, "EINVAL")),
              res |-> Release(mapped, map1)]
        ELSE [ok |-> TRUE, file |-> mapped, errno |-> "", res |-> map1]

\* an entry_to_passwd / entry_to_group that takes a buffer one byte short
entry_to_short(k, F, e, space) ==
    IF k = "pw" THEN entry_to_passwd(F, e, space + 1)
    ELSE entry_to_group(F, e, space + 1)

EntrySize(k) == IF k = "pw" THEN PasswdEntrySize ELSE GroupEntrySize

entry_to(k, F, e, space) ==
    IF k = "pw" THEN entry_to_passwd(F, e, space)
    ELSE entry_to_group(F, e, space)

\* an internal_getpwent_r that advances before it knows the buffer is
\* large enough
AdvanceAlways(m, ok) == m.next_index + 1

\* static_file.next_index once internal_get{pw,gr}ent_r has called
\* entry_to_{passwd,group} with result ok
NextIndex(m, ok) == IF ok THEN m.next_index + 1 ELSE m.next_index

\* the buffer sizes callers pass: one that holds some of the records of
\* the caches below and not others, and one that holds each of them
BigBuf == 64

SmallBuf == 7

AllBufLens == {SmallBuf, BigBuf}

BufLens == inp.buflens

\* the consecutive calls with a too small buffer that are counted
MaxTries == 3

Ret(op, status, errno, key, buflen, out) ==
    [op |-> op, status |-> status, errno |-> errno, key |-> key,
     buflen |-> buflen, out |-> out]

\* the uid_t / gid_t and the names callers look up
IdKeys == {<<0, 0, 0, 0>>, <<1, 0, 0, 0>>, <<7, 0, 0, 0>>}

NameKeys(k) ==
    IF k = "pw" THEN {Lit(<<97>>), Lit(<<98>>), Lit(<<122>>)}
    ELSE {Lit(<<103>>), Lit(<<104>>), Lit(<<122>>)}

IdKey(v) == [byName |-> FALSE, name |-> << >>, id |-> FromId32(v)]

NameKey(n) == [byName |-> TRUE, name |-> n, id |-> U64FromInt(0)]

AllKeys(k) ==
    {IdKey(v) : v \in IdKeys} \cup {NameKey(n) : n \in NameKeys(k)}

Keys(k) == inp.keys

\* the databases the threads query: all, or the one given by inp.kind
ReadKinds == IF inp.kind \in Kinds THEN {inp.kind} ELSE Kinds

\* ... and those they enumerate (inp.enum: they do)
EnumKinds == IF inp.enum THEN ReadKinds ELSE {}

\* a static_file_lock that never makes a thread wait
NoMutex(l) == TRUE

\* pthread_mutex_lock(&static_file_lock) returns: no thread holds the lock
\* l (0: none, or the thread that holds it)
MutexFree(l) == l = 0

\* internal_unmap_static_file, the body of set{pw,gr}ent and end{pw,gr}ent
internal_unmap_static_file(t, k, op) ==
    /\ th[t].pc = "idle" /\ MutexFree(rd.lock[k])
    /\ rd' = [rd EXCEPT !.file[k] = unmap_file(@), !.snap[k] = << >>,
                        !.got[k] = << >>, !.tries[k] = 0,
                        !.res = Release(rd.file[k], @)]
    /\ th' = [th EXCEPT ![t].kind = k, ![t].snap = << >>,
                        ![t].ret = Ret(op, "SUCCESS", "", NoKey, 0, NoResult)]
    /\ fs' = Gc(fs, RefsOf(rd', th'))
    /\ UNCHANGED <<tool, inp>>

setent ==
    \E t \in Threads, k \in EnumKinds :
        internal_unmap_static_file(t, k, "setent") /\ hist' = hist

endent ==
    \E t \in Threads, k \in EnumKinds :
        internal_unmap_static_file(t, k, "endent") /\ hist' = hist

\* get{pw,gr}ent_r: pthread_mutex_lock and the first part of
\* internal_get{pw,gr}ent_r, mapping the file if it is not mapped
getent_map ==
    \E t \in Threads, k \in EnumKinds :
        /\ th[t].pc = "idle" /\ MutexFree(rd.lock[k])
        /\ LET m == map_file(fs, PathOf(k))
           IN  IF rd.file[k].header # 0
               THEN /\ rd' = [rd EXCEPT !.lock[k] = t]
                    /\ th' = [th EXCEPT ![t].pc = "getent", ![t].kind = k,
                                        ![t].snap = << >>, ![t].ret = NoRet]
               ELSE IF m.ok
               THEN /\ rd' = [rd EXCEPT !.lock[k] = t, !.file[k] = m.file,
                                 !.snap[k] = Content(fs, PathOf(k)),
                                 !.got[k] = << >>, !.tries[k] = 0,
                                 !.res = AddRes(@, m.res)]
                    /\ th' = [th EXCEPT ![t].pc = "getent", ![t].kind = k,
                                        ![t].snap = << >>, ![t].ret = NoRet]
               ELSE /\ rd' = [rd EXCEPT !.file[k] = m.file,
                                        !.res = AddRes(@, m.res)]
                    /\ th' = [th EXCEPT
                                ![t].kind = k, ![t].snap = << >>,
                                ![t].ret = Ret("getent", "UNAVAIL", m.errno,
                                               NoKey, 0, NoResult)]
        /\ UNCHANGED <<fs, tool, hist, inp>>

\* an end test that lets one more call through
PastEnd(m, F) == m.next_index > h_count(F)

\* internal_get{pw,gr}ent_r: End of "file", stop
EndOfFile(m, F) == m.next_index >= h_count(F)

\* ... the rest of internal_get{pw,gr}ent_r, pthread_mutex_unlock, return
getent_read ==
    \E t \in Threads, buflen \in BufLens :
        /\ th[t].pc = "getent"
        /\ LET k == th[t].kind
               m == rd.file[k]
               F == MappedData(fs, m, PathOf(k))
               off_orig == HeaderSize + h_off_orig_index(F)
               e == HeaderSize + h_off_data(F)
                       + U64ToInt(ReadU64(F, off_orig + 8 * m.next_index))
               r == entry_to(k, F, e, buflen)
           IN  /\ IF EndOfFile(m, F)
                  THEN /\ rd' = [rd EXCEPT !.lock[k] = 0]
                       /\ th' = [th EXCEPT
                                   ![t].pc = "idle",
                                   ![t].ret = Ret("getent", "NOTFOUND",
                                                  "ENOENT", NoKey, buflen,
                                                  NoResult)]
                  ELSE /\ rd' = [rd EXCEPT
                                   !.lock[k] = 0,
                                   !.file[k].next_index = NextIndex(m, r.ok),
                                   !.got[k] = IF r.ok THEN Append(@, r) ELSE @,
                                   !.tries[k] = IF r.ok \/ ~hist.on THEN 0
                                                ELSE IF @ < MaxTries
                                                THEN @ + 1 ELSE @]
                       /\ th' = [th EXCEPT
                                   ![t].pc = "idle",
                                   ![t].ret = IF r.ok
                                              THEN Ret("getent", "SUCCESS",
                                                       "", NoKey, buflen, r)
                                              ELSE Ret("getent", "TRYAGAIN",
                                                       "ERANGE", NoKey,
                                                       buflen, NoResult)]
        /\ UNCHANGED <<fs, tool, hist, inp>>

\* the same in two steps, for threads that run side by side: the part of
\* internal_get{pw,gr}ent_r that reads static_file.next_index and fills the
\* result, ...
getent_entry ==
    \E t \in Threads, buflen \in BufLens :
        /\ th[t].pc = "getent"
        /\ LET k == th[t].kind
               m == rd.file[k]
               F == MappedData(fs, m, PathOf(k))
               off_orig == HeaderSize + h_off_orig_index(F)
               e == HeaderSize + h_off_data(F)
                       + U64ToInt(ReadU64(F, off_orig + 8 * m.next_index))
               r == entry_to(k, F, e, buflen)
           IN  th' = [th EXCEPT
                        ![t].pc = "getent_ret",
                        ![t].ret = IF EndOfFile(m, F)
                                   THEN Ret("getent", "NOTFOUND", "ENOENT",
                                            NoKey, buflen, NoResult)
                                   ELSE IF r.ok
                                   THEN Ret("getent", "SUCCESS", "", NoKey,
                                            buflen, r)
                                   ELSE Ret("getent", "TRYAGAIN", "ERANGE",
                                            NoKey, buflen, NoResult)]
        /\ UNCHANGED <<fs, tool, hist, rd, inp>>

\* ... and static_file.next_index++ after a success, pthread_mutex_unlock
\* and the return
getent_return ==
    \E t \in Threads :
        /\ th[t].pc = "getent_ret"
        /\ LET k == th[t].kind
               ok == th[t].ret.status = "SUCCESS"
           IN  /\ rd' = [rd EXCEPT
                            !.lock[k] = 0,
                            !.file[k].next_index =
                                IF th[t].ret.status = "NOTFOUND" THEN @
                                ELSE NextIndex(rd.file[k], ok),
                            !.got[k] = IF ok THEN Append(@, th[t].ret.out)
                                       ELSE @]
               /\ th' = [th EXCEPT ![t].pc = "idle"]
        /\ UNCHANGED <<fs, tool, hist, inp>>

\* an internal_get{pw,gr} that checks the buffer, on the first record of
\* the file, before it searches
internal_get_size_first(k, F, key, buflen) ==
    LET skey == [byName |-> key.byName, name |-> key.name, id |-> key.id,
                 data |-> HeaderSize + h_off_data(F),
                 offset |-> IF key.byName THEN EntrySize(k) ELSE 0]
        off_index == IF key.byName THEN h_off_name_index(F)
                     ELSE h_off_id_index(F)
        off == search(F, skey, HeaderSize + off_index, h_count(F))
        e == skey.data + U64ToInt(ReadU64(F, off))
        r == entry_to(k, F, e, buflen)
    IN  IF ~entry_to(k, F, skey.data, buflen).ok
        THEN Ret("lookup", "TRYAGAIN", "ERANGE", key, buflen, NoResult)
        ELSE IF off < 0
        THEN Ret("lookup", "NOTFOUND", "ENOENT", key, buflen, NoResult)
        ELSE IF ~r.ok
        THEN Ret("lookup", "TRYAGAIN", "ERANGE", key, buflen, NoResult)
        ELSE Ret("lookup", "SUCCESS", "", key, buflen, r)

\* the result of internal_get{pw,gr} on the mapped bytes F
internal_get(k, F, key, buflen) ==
    LET skey == [byName |-> key.byName, name |-> key.name, id |-> key.id,
                 data |-> HeaderSize + h_off_data(F),
                 offset |-> IF key.byName THEN EntrySize(k) ELSE 0]
        off_index == IF key.byName THEN h_off_name_index(F)
                     ELSE h_off_id_index(F)
        off == search(F, skey, HeaderSize + off_index, h_count(F))
        e == skey.data + U64ToInt(ReadU64(F, off))
        r == entry_to(k, F, e, buflen)
    IN  IF off < 0
        THEN Ret("lookup", "NOTFOUND", "ENOENT", key, buflen, NoResult)
        ELSE IF ~r.ok
        THEN Ret("lookup", "TRYAGAIN", "ERANGE", key, buflen, NoResult)
        ELSE Ret("lookup", "SUCCESS", "", key, buflen, r)

\* a lookup that maps the file into static_file, as the enumeration does
lookup_static ==
    \E t \in Threads, k \in ReadKinds :
        /\ th[t].pc = "idle"
        /\ LET m == map_file(fs, PathOf(k))
           IN  /\ \E key \in Keys(k) :
                     IF m.ok
                     THEN th' = [th EXCEPT ![t].pc = "lookup", ![t].kind = k,
                                           ![t].key = key, ![t].f = m.file,
                                           ![t].snap = Content(fs, PathOf(k)),
                                           ![t].ret = NoRet]
                     ELSE th' = [th EXCEPT
                                   ![t].kind = k, ![t].snap = << >>,
                                   ![t].ret = Ret("lookup", "UNAVAIL", m.errno,
                                                  key, 0, NoResult)]
               /\ rd' = [rd EXCEPT !.res = AddRes(@, m.res),
                                   !.file[k] = m.file]
        /\ UNCHANGED <<fs, tool, hist, inp>>

\* get{pw,gr}{uid,gid,nam}_r: internal_get{pw,gr} up to map_file
lookup_map ==
    \E t \in Threads, k \in ReadKinds :
        /\ th[t].pc = "idle"
        /\ LET m == map_file(fs, PathOf(k))
           IN  \E key \in Keys(k) :
               IF m.ok
               THEN th' = [th EXCEPT ![t].pc = "lookup", ![t].kind = k,
                                     ![t].key = key, ![t].f = m.file,
                                     ![t].snap = Content(fs, PathOf(k)),
                                     ![t].ret = NoRet]
               ELSE th' = [th EXCEPT
                             ![t].kind = k, ![t].snap = << >>,
                             ![t].ret = Ret("lookup", "UNAVAIL", m.errno,
                                            key, 0, NoResult)]
        /\ rd' = [rd EXCEPT !.res = AddRes(@, map_file(fs, PathOf(k)).res)]
        /\ UNCHANGED <<fs, tool, hist, inp>>

\* ... and the rest of it: search, entry_to_{passwd,group}, unmap_file
lookup_search ==
    \E t \in Threads, buflen \in BufLens :
        /\ th[t].pc = "lookup"
        /\ LET k == th[t].kind
               F == MappedData(fs, th[t].f, PathOf(k))
           IN  th' = [th EXCEPT
                        ![t].pc = "idle", ![t].f = NoFile,
                        ![t].key = NoKey,
                        ![t].ret = internal_get(k, F, th[t].key, buflen)]
        /\ rd' = [rd EXCEPT !.res = Release(th[t].f, @)]
        /\ fs' = Gc(fs, RefsOf(rd, th'))
        /\ UNCHANGED <<tool, hist, inp>>

(***************************************************************************)
(* Readers running while the tool replaces the caches                      *)
(***************************************************************************)
NextReader ==
    \/ Start
    \/ FetchFile
    \/ DeployBegin
    \/ DeployStat
    \/ DeployChmod
    \/ DeployChown
    \/ DeployWrite
    \/ DeployWrite2
    \/ DeployReplace
    \/ DeploySync
    \/ WriteStateBegin
    \/ setent
    \/ endent
    \/ getent_map
    \/ getent_read
    \/ lookup_map
    \/ lookup_search

\* the tool is configured for the one database the thread reads, and the
\* directory of its state file is read-only: WriteState fails, every run
\* finds no state and fetches unconditionally, so that no fetch ends in
\* "No update required"
InitReader ==
    /\ inp \in {[kind |-> "pw", cfg |-> <<PasswdFile>>,
                  keys |-> {IdKey(<<0, 0, 0, 0>>), NameKey(Lit(<<98>>))},
                  enum |-> TRUE, buflens |-> {BigBuf}, src |-> << >>],
                 [kind |-> "gr", cfg |-> <<GroupFile>>,
                  keys |-> {IdKey(<<0, 0, 0, 0>>), NameKey(Lit(<<104>>))},
                  enum |-> TRUE, buflens |-> {BigBuf}, src |-> << >>]}
    /\ fs = FsInit("ro")
    /\ tool = ToolInit
    /\ hist = [on |-> FALSE, start |-> Snapshot(fs), log |-> << >>,
               body |-> [i \in 1..NFiles |-> << >>], killed |-> "no",
               list |-> << >>, reqs |-> << >>, atset |-> NotSet]
    /\ RdInit({1})

\* a thread reading one of the databases, and the tool, run after run
SpecReader == InitReader /\ [][NextReader]_vars

(***************************************************************************)
(* Properties of the reader                                                *)
(***************************************************************************)
\* the i-th record (from 0) of the enumeration of a cache with content b,
\* materialised in a buffer that is large enough
EnumAt(k, b, i) ==
    LET F == View(b)
        off_orig == HeaderSize + h_off_orig_index(F)
        e == HeaderSize + h_off_data(F)
                + U64ToInt(ReadU64(F, off_orig + 8 * i))
    IN  entry_to(k, F, e, 1048576)

\* C5: a mapping keeps showing the content the file had when it was mapped,
\* whatever the tool has done to the path since: the records an enumeration
\* returned since it mapped the file are the first records of that one
\* version, in order, and the result of a single-shot lookup is the result
\* of the lookup in the version it mapped.
C5_OneVersionPerMapping ==
    /\ \A k \in ReadKinds :
          rd.file[k].header # 0 =>
              /\ fs.ino[rd.file[k].header].live
              /\ MappedData(fs, rd.file[k], PathOf(k)).r = rd.snap[k]
              /\ Len(rd.got[k]) = rd.file[k].next_index
              /\ \A i \in 1..Len(rd.got[k]) :
                    rd.got[k][i] = EnumAt(k, rd.snap[k], i - 1)
    /\ \A t \in Threads :
          /\ th[t].pc = "lookup" =>
                /\ fs.ino[th[t].f.header].live
                /\ MappedData(fs, th[t].f, PathOf(th[t].kind)).r = th[t].snap
          /\ th[t].pc = "idle" /\ th[t].ret.op = "lookup"
                /\ th[t].ret.status # "UNAVAIL" =>
                th[t].ret = internal_get(th[t].kind, View(th[t].snap),
                                         th[t].ret.key, th[t].ret.buflen)

\* an enumeration that has returned the first record of the cache it mapped
\* is about to read the second one, and the tool has replaced the file by
\* another version since
C5_Witness ==
    \E t \in Threads, k \in ReadKinds :
        /\ th[t].pc = "getent" /\ th[t].kind = k
        /\ Len(rd.got[k]) = 1
        /\ h_count(View(rd.snap[k])) = 2
        /\ rd.file[k].header # fs.dir[PathOf(k)]
        /\ Content(fs, PathOf(k)) # rd.snap[k]

\* a single-shot lookup has mapped the file and the tool has replaced it by
\* another version before the lookup searched it
C5_WitnessLookup ==
    \E t \in Threads :
        /\ th[t].pc = "lookup"
        /\ th[t].f.header # fs.dir[PathOf(th[t].kind)]
        /\ Content(fs, PathOf(th[t].kind)) # th[t].snap


(***************************************************************************)
(* nsscash convert, and a thread reading the cache it made                 *)
(***************************************************************************)
\* the lines of the files given to nsscash convert
PwLines ==
    <<Lit(<<97, 58, 120, 58, 48, 58, 48, 58, 58, 58, 10>>),
                                                           \* a:x:0:0:::
      Lit(<<98, 58, 120, 58, 49, 58, 49, 58, 103, 58, 47, 58, 47, 115, 10>>),
                                                       \* b:x:1:1:g:/:/s
      Lit(<<97, 58, 58, 49, 58, 48, 58, 58, 58, 10>>),     \* a::1:0:::
      Lit(<<99, 58, 120, 58, 52, 50, 57, 52, 57, 54, 55, 50, 57, 54, 58, 48,
            58, 58, 58, 10>>)>>                   \* c:x:4294967296:0:::

GrLines ==
    <<Lit(<<103, 58, 120, 58, 48, 58, 10>>),               \* g:x:0:
      Lit(<<104, 58, 58, 49, 58, 97, 44, 98, 10>>),        \* h::1:a,b
      Lit(<<103, 58, 120, 58, 49, 58, 98, 44, 97, 10>>),   \* g:x:1:b,a
      Lit(<<105, 58, 120, 58, 52, 50, 57, 52, 57, 54, 55, 50, 57, 54, 58, 97,
            10>>)>>                                 \* i:x:4294967296:a

LinesOf(k) == IF k = "pw" THEN PwLines ELSE GrLines

\* the most lines a file has
MaxRecs == 2

\* the files of up to MaxRecs of these lines, in any order, repeats included
Texts(k) ==
    {Cat([i \in DOMAIN f |-> LinesOf(k)[f[i]]]) :
        f \in UNION {[1..n -> 1..Len(LinesOf(k))] : n \in 0..MaxRecs}}

\* a line whose record has a data section of n + 7 bytes:
\* a:x:0:0:xx...x:: and g::0:xx...x, with n times x
LongLine(k, n) ==
    IF k = "pw"
    THEN Cat(<<Lit(<<97, 58, 120, 58, 48, 58, 48, 58>>), Rep(120, n),
               Lit(<<58, 58, 10>>)>>)
    ELSE Cat(<<Lit(<<103, 58, 58, 48, 58>>), Rep(120, n), Lit(<<10>>)>>)

\* files with a record whose data section is 65534, 65535 or 65536 bytes
\* long, alone, after and before a short one
LongTexts(k) ==
    UNION {{LongLine(k, n),
            BCat(LinesOf(k)[2], LongLine(k, n)),
            BCat(LongLine(k, n), LinesOf(k)[2])} :
              n \in {65527, 65528, 65529}}

\* mainConvert up to the buffer x: [err, body, list], list being the
\* records the parser returned
convertBuffer(k, src) ==
    IF k = "pw"
    THEN LET pws == ParsePasswds(src)
         IN  IF pws.err # ""
             THEN {[err |-> pws.err, body |-> << >>, list |-> << >>]}
             ELSE {[err |-> x.err, body |-> x.out, list |-> pws.res] :
                      x \in SerializePasswds(pws.res)}
    ELSE LET grs == ParseGroups(src)
         IN  IF grs.err # ""
             THEN {[err |-> grs.err, body |-> << >>, list |-> << >>]}
             ELSE {[err |-> x.err, body |-> x.out, list |-> grs.res] :
                      x \in SerializeGroups(grs.res)}

\* nsscash convert <type> <src> <dst>, dst being the cache of that type:
\* mainConvert.  It deploys x to a temporary file of dst's directory (which
\* deployFile replaces by one without write permission) and renames that
\* file to dst; any of the file operations may fail, and then dst is as
\* before
Convert ==
    /\ tool.pc = "idle"
    /\ FreeInos(fs) # {}
    /\ \E x \in convertBuffer(inp.kind, inp.src) :
       \E ioerr \in {"", "TempFile"} :
          LET err == IF x.err # "" THEN x.err ELSE ioerr
              n == CHOOSE n \in FreeInos(fs) : \A m \in FreeInos(fs) : n <= m
              written == FsWrite(FsChmod(FsTempFile(fs, n), n,
                                         {"ur", "uw"} \ WriteBits),
                                 n, x.body)
          IN  /\ fs' = IF err # "" THEN fs
                       ELSE Gc(FsRename(written, n, PathOf(inp.kind)), Refs)
              /\ tool' = AtExit([tool EXCEPT
                                    !.pc = IF err = "" THEN "done"
                                           ELSE "failed"])
              /\ hist' = [hist EXCEPT
                            !.log = Logged(Event("convert", 0, err, "none")),
                            !.list = x.list]
    /\ UNCHANGED <<rd, th, inp>>

NextSer ==
    \/ Convert
    \/ setent
    \/ endent
    \/ getent_map
    \/ getent_read
    \/ lookup_map
    \/ lookup_search

\* a file is converted and a thread reads the cache: it enumerates it, or
\* it looks up any of the keys, with any of the buffers (with the large
\* one where a record is long)
InitSer ==
    /\ inp \in UNION {
            {[kind |-> k, cfg |-> << >>,
              keys |-> IF enum THEN {} ELSE AllKeys(k), enum |-> enum,
              buflens |-> AllBufLens, src |-> s] :
                 s \in Texts(k), enum \in BOOLEAN}
              \cup
            {[kind |-> k, cfg |-> << >>, keys |-> {}, enum |-> TRUE,
              buflens |-> {BigBuf}, src |-> s] : s \in LongTexts(k)} :
            k \in Kinds}
    /\ fs = FsInit("rw")
    /\ tool = ToolInit
    /\ hist = [on |-> TRUE, start |-> Snapshot(fs), log |-> << >>,
               body |-> << >>, killed |-> "no", list |-> << >>,
               reqs |-> << >>, atset |-> NotSet]
    /\ RdInit({1})

SpecSer == InitSer /\ [][NextSer]_vars

(***************************************************************************)
(* Properties of the cache format: what a reader gets from the cache that  *)
(* nsscash convert made of the records hist.list                           *)
(***************************************************************************)
\* mainConvert has returned err
Converted_(err) == hist.log = <<Event("convert", 0, err, "none")>>

RECURSIVE SumLen(_, _)
SumLen(members, k) ==
    IF k > Len(members) THEN 0
    ELSE BLen(members[k]) + 1 + SumLen(members, k + 1)

\* the length of the data section of record r of database k: its strings,
\* each with its NUL, and for a group the padding to an even offset and
\* the table of one uint16 per member before the members
DataSize(k, r) ==
    IF k = "pw"
    THEN BLen(r.Name) + BLen(r.Passwd) + BLen(r.Gecos) + BLen(r.Dir)
             + BLen(r.Shell) + 5
    ELSE LET strings == BLen(r.Name) + BLen(r.Passwd) + 2
         IN  strings + (strings % 2) + 2 * Len(r.Members)
                 + SumLen(r.Members, 1)

\* the materialisation requirement of r: the buffer a reader needs for it
Need(k, r) ==
    IF k = "pw" THEN DataSize(k, r)
    ELSE DataSize(k, r) + (Len(r.Members) + 1) * SizeofPtr

\* the id of r a lookup goes by
IdOf(k, r) == IF k = "pw" THEN r.Uid ELSE r.Gid

\* the record a caller reads from the struct passwd / struct group and the
\* buffer of result out
Fields(k, out) ==
    IF k = "pw"
    THEN [Name |-> CStr(out.buf, out.res.name),
          Passwd |-> CStr(out.buf, out.res.passwd),
          Uid |-> FromId32(out.res.id),
          Gid |-> FromId32(out.res.gid),
          Gecos |-> CStr(out.buf, out.res.gecos),
          Dir |-> CStr(out.buf, out.res.dir),
          Shell |-> CStr(out.buf, out.res.shell)]
    ELSE LET mem_size == Len(out.ptrs) * SizeofPtr
         IN  [Name |-> CStr(out.buf, out.res.name - mem_size),
              Passwd |-> CStr(out.buf, out.res.passwd - mem_size),
              Gid |-> FromId32(out.res.id),
              Members |-> [i \in 1..(Len(out.ptrs) - 1) |->
                              CStr(out.buf, out.ptrs[i] - mem_size)]]

\* the materialisation of record r: what the reader makes of the entry
\* the serializer makes of r, given room
Mat(k, r) ==
    LET x == IF k = "pw" THEN SerializePasswd(r) ELSE SerializeGroup(r)
    IN  entry_to(k, View(x.res), 0, 1048576)

\* the results of get{pw,gr}ent_r since the file was mapped are the
\* records of hist.list, in order, as read by rec
Enumerated(k, rec(_, _)) ==
    /\ rd.file[k].header # 0 =>
          /\ Len(rd.got[k]) <= Len(hist.list)
          /\ \A i \in 1..Len(rd.got[k]) : rec(k, i)
    /\ \A t \in Threads :
          th[t].pc = "idle" /\ th[t].kind = k /\ th[t].ret.op = "getent"
                /\ th[t].ret.status # "UNAVAIL" =>
              /\ rd.file[k].header # 0
              /\ th[t].ret.status = "NOTFOUND" =>
                    /\ th[t].ret.errno = "ENOENT"
                    /\ Len(rd.got[k]) = Len(hist.list)
              /\ th[t].ret.status = "TRYAGAIN" =>
                    /\ Len(rd.got[k]) < Len(hist.list)
                    /\ th[t].ret.buflen
                          < Need(k, hist.list[Len(rd.got[k]) + 1])
              /\ th[t].ret.status = "SUCCESS" =>
                    /\ rd.got[k] # << >>
                    /\ th[t].ret.out = rd.got[k][Len(rd.got[k])]
                    /\ th[t].ret.buflen
                          >= Need(k, hist.list[Len(rd.got[k])])

SameFields(k, i) == Fields(k, rd.got[k][i]) = hist.list[i]

SameBytes(k, i) == rd.got[k][i] = Mat(k, hist.list[i])

\* C6: enumerating the cache made of a record list, with buffers that are
\* large enough, yields one result per record, the i-th equal field by
\* field to the i-th record of the list, and then not-found.
C6_RoundTrip == \A k \in EnumKinds : Enumerated(k, SameFields)

\* the uid and gid of r fit uid_t and gid_t
Fits32(k, r) ==
    /\ SubSeq(IdOf(k, r), 5, 8) = <<0, 0, 0, 0>>
    /\ k = "pw" => SubSeq(r.Gid, 5, 8) = <<0, 0, 0, 0>>

\* ... which holds of the records whose ids fit 32 bits, and byte by byte
\* of all
RoundTripIn32 ==
    \A k \in EnumKinds :
        /\ Enumerated(k, SameBytes)
        /\ Enumerated(k, LAMBDA kk, i :
                            Fits32(kk, hist.list[i]) => SameFields(kk, i))

\* an enumeration has returned a record whose uid or gid does not fit 32
\* bits
C6_Truncated ==
    \E k \in EnumKinds :
        /\ rd.file[k].header # 0
        /\ \E i \in 1..Len(rd.got[k]) : ~Fits32(k, hist.list[i])

\* the records of hist.list that carry key
Matches(k, key) ==
    {i \in 1..Len(hist.list) :
        IF key.byName THEN BCmp(hist.list[i].Name, key.name) = 0
        ELSE IdOf(k, hist.list[i]) = key.id}

\* the single-shot lookups that have returned, with what pred says of
\* their result ret and the records m that carry their key
Lookups(pred(_, _, _)) ==
    \A t \in Threads :
        th[t].pc = "idle" /\ th[t].ret.op = "lookup"
              /\ th[t].ret.status # "UNAVAIL" =>
            LET k == th[t].kind
                ret == th[t].ret
                m == Matches(k, ret.key)
            IN  IF m = {}
                THEN ret.status = "NOTFOUND" /\ ret.errno = "ENOENT"
                ELSE pred(k, ret, m)

\* C7: a lookup by the id or by the name of a record r of the cache, with
\* a buffer that holds r, succeeds and returns the materialisation of r
\* (so that the lookup by r's id and the one by r's name return the same
\* bytes); a lookup by an id or a name that no record carries returns
\* not-found with ENOENT.
C7_LookupReturnsRecord ==
    Lookups(LAMBDA k, ret, m :
               \A i \in m :
                  ret.buflen >= Need(k, hist.list[i]) =>
                      /\ ret.status = "SUCCESS"
                      /\ ret.out = Mat(k, hist.list[i]))

\* C7, amended: a lookup by an id or a name that records of the cache
\* carry returns the materialisation of one of them, which one being open
\* when several carry it, or try-again with ERANGE when its buffer does
\* not hold one of them; with one that no record carries it returns
\* not-found with ENOENT.
C7_LookupReturnsOneOf ==
    Lookups(LAMBDA k, ret, m :
               \/ /\ ret.status = "SUCCESS"
                  /\ \E i \in m : /\ ret.out = Mat(k, hist.list[i])
                                  /\ ret.buflen >= Need(k, hist.list[i])
               \/ /\ ret.status = "TRYAGAIN" /\ ret.errno = "ERANGE"
                  /\ \E i \in m : ret.buflen < Need(k, hist.list[i]))

\* a lookup by a name that two records with different fields carry has
\* returned one of them
C7_Witness ==
    \E t \in Threads :
        /\ th[t].pc = "idle" /\ th[t].ret.op = "lookup"
        /\ th[t].ret.status = "SUCCESS" /\ th[t].ret.key.byName
        /\ \E i, j \in Matches(th[t].kind, th[t].ret.key) :
              hist.list[i] # hist.list[j]

\* a lookup by a key that one record carries, and one by a key that none
\* carries, have returned
C7_WitnessUnique ==
    \E t \in Threads :
        /\ th[t].pc = "idle" /\ th[t].ret.op = "lookup"
        /\ Len(hist.list) = 2
        /\ \/ /\ th[t].ret.status = "SUCCESS"
              /\ Cardinality(Matches(th[t].kind, th[t].ret.key)) = 1
           \/ /\ th[t].ret.status = "NOTFOUND"
              /\ ~th[t].ret.key.byName

\* the step that ends a call of get{pw,gr}ent_r of thread t on database k
\* with the file mapped and a record at the cursor
ReadsRecord(t, k) ==
    /\ th[t].pc = "getent" /\ th[t].kind = k /\ th'[t].pc = "idle"
    /\ rd.file[k].next_index < Len(hist.list)

\* C8: a call of get{pw,gr}ent_r with a buffer smaller than the
\* materialisation requirement of the record at the cursor returns
\* try-again with ERANGE and leaves the cursor and the mapping as they are
\* (a call that finds the file mapped leaves it mapped as it is; the first
\* call of an enumeration maps it), however many such calls follow one
\* another; the call with a buffer that is large enough returns the
\* record at the cursor, and only that call moves the cursor.
C8_TryAgainKeepsCursor ==
    /\ [](\A k \in EnumKinds :
             rd.file[k].header # 0 =>
                 /\ Len(rd.got[k]) = rd.file[k].next_index
                 /\ rd.tries[k] > 0 => rd.file[k].next_index < Len(hist.list))
    /\ [][\A t \in Threads, k \in EnumKinds :
             /\ th[t].pc = "idle" /\ th'[t].pc = "getent" /\ th'[t].kind = k
                   /\ rd.file[k].header # 0 =>
                   rd'.file[k] = rd.file[k]
             /\ ReadsRecord(t, k) =>
                   LET ret == th'[t].ret
                       r == hist.list[rd.file[k].next_index + 1]
                   IN  IF ret.buflen < Need(k, r)
                       THEN /\ ret.status = "TRYAGAIN"
                            /\ ret.errno = "ERANGE"
                            /\ rd'.file[k] = rd.file[k]
                            /\ rd'.got[k] = rd.got[k]
                            /\ fs' = fs
                       ELSE /\ ret.status = "SUCCESS"
                            /\ ret.out = Mat(k, r)
                            /\ rd'.file[k] = [rd.file[k] EXCEPT
                                                !.next_index = @ + 1]
                            /\ fs' = fs]_vars

\* the enumeration has returned the first of two records, and MaxTries
\* calls in a row have found the buffer too small for the second
C8_Witness ==
    \E t \in Threads, k \in EnumKinds :
        /\ th[t].pc = "idle" /\ th[t].kind = k /\ th[t].ret.op = "getent"
        /\ th[t].ret.status = "TRYAGAIN"
        /\ rd.tries[k] = MaxTries
        /\ rd.file[k].next_index = 1 /\ Len(hist.list) = 2

\* the records of hist.list the serializer refuses
Refused(k) ==
    {i \in 1..Len(hist.list) :
        (IF k = "pw" THEN SerializePasswd(hist.list[i])
         ELSE SerializeGroup(hist.list[i])).err # ""}

TooLargeErr(k) ==
    IF k = "pw" THEN "passwd too large to serialize"
    ELSE "group too large to serialize"

\* mainConvert has returned: what it did with the records hist.list
TooLargeIff ==
    LET k == inp.kind
        err == hist.log[1].err
        long == {i \in 1..Len(hist.list) :
                    DataSize(k, hist.list[i]) > MaxUint16}
    IN  /\ Refused(k) = long
        /\ \A i \in long :
              (IF k = "pw" THEN SerializePasswd(hist.list[i])
               ELSE SerializeGroup(hist.list[i]))
                  = [err |-> TooLargeErr(k), res |-> << >>]
        /\ err = TooLargeErr(k) <=> long # {}
        /\ err # "" => Snapshot(fs) = hist.start
        /\ err = "" =>
              /\ h_count(View(Content(fs, PathOf(k)))) = Len(hist.list)
              /\ \A i \in 1..Len(hist.list) :
                    EnumAt(k, Content(fs, PathOf(k)), i - 1)
                        = Mat(k, hist.list[i])

\* C9: SerializePasswd / SerializeGroup refuse a record, with "passwd /
\* group too large to serialize", if and only if its data section is
\* longer than 65535 bytes (one of exactly 65535 bytes is accepted), and
\* SerializePasswds / SerializeGroups fail with that error, writing
\* nothing, if and only if they are given such a record; what they write
\* otherwise holds every record in full.
C9_TooLargeIff == hist.log # << >> => TooLargeIff

\* a file of two records, one of them with a data section of exactly 65535
\* bytes, has been converted
C9_Witness ==
    /\ Converted_("")
    /\ Len(hist.list) = 2
    /\ \E i \in 1..2 : DataSize(inp.kind, hist.list[i]) = MaxUint16

\* a file of two records, the second short and the first with a data
\* section of 65536 bytes, has been refused
C9_WitnessRefused ==
    /\ Converted_(TooLargeErr(inp.kind))
    /\ Len(hist.list) = 2
    /\ DataSize(inp.kind, hist.list[1]) = MaxUint16 + 1

(***************************************************************************)
(* The parsers, on files that may lack the last newline                    *)
(***************************************************************************)
\* what a file that does not end in a newline may end in: one of the lines
\* without its newline, or the letter x
Tails(k) ==
    {BTake(LinesOf(k)[i], BLen(LinesOf(k)[i]) - 1) :
        i \in 1..Len(LinesOf(k))} \cup {Lit(<<120>>)}

ParseTexts(k) == {BCat(s, t) : s \in Texts(k), t \in Tails(k) \cup {<< >>}}

NextParse == Convert

InitParse ==
    /\ inp \in UNION {{[kind |-> k, cfg |-> << >>, keys |-> {},
                         enum |-> FALSE, buflens |-> {}, src |-> s] :
                            s \in ParseTexts(k)} : k \in Kinds}
    /\ fs = FsInit("rw")
    /\ tool = ToolInit
    /\ hist = [on |-> TRUE, start |-> Snapshot(fs), log |-> << >>,
               body |-> << >>, killed |-> "no", list |-> << >>,
               reqs |-> << >>, atset |-> NotSet]
    /\ RdInit({1})

\* nsscash convert on such a file
SpecParse == InitParse /\ [][NextParse]_vars

\* the input is not empty and does not end in a newline
Unterminated(src) == src # << >> /\ src[Len(src)][1] # 10

Parsed(k, src) == IF k = "pw" THEN ParsePasswds(src) ELSE ParseGroups(src)

\* the parser of database k fails with "no newline in last line" and
\* returns no records on the input of mainConvert, which fails with that
\* error and leaves its destination alone
RejectsUnterminated(k) ==
    hist.log # << >> /\ inp.kind = k /\ Unterminated(inp.src) =>
        /\ Parsed(k, inp.src)
              = [err |-> "no newline in last line", res |-> << >>]
        /\ Converted_("no newline in last line")
        /\ hist.list = << >>
        /\ Snapshot(fs) = hist.start

\* C10: ParsePasswds and ParseGroups fail with "no newline in last line"
\* and return no records when the last line of their input is not empty
\* and has no newline.
C10_UnterminatedRejected == \A k \in Kinds : RejectsUnterminated(k)

\* ... which holds of ParseGroups
GroupsUnterminatedRejected == RejectsUnterminated("gr")

\* a passwd file whose last line has no newline has been converted, the
\* cache holding the records of the lines before it
C10_Dropped ==
    /\ inp.kind = "pw" /\ Unterminated(inp.src)
    /\ Converted_("")
    /\ h_count(View(Content(fs, "passwd"))) = Len(hist.list)

(***************************************************************************)
(* fetchFile on any state file and any target                              *)
(***************************************************************************)
\* the times a state file may hold for a URL (0: the zero time.Time)
StateTimes == {0, 1, 2}

\* what the target of a file may hold before a run
TargetData == {<< >>, Lit(<<120>>)}

\* the state files of a configuration of the one file c: each map with or
\* without an entry for its URL
StatesOf(c) ==
    {[LastModified |-> lm, Checksum |-> sum] :
        lm \in {<< >>} \cup {c.Url :> t : t \in StateTimes},
        sum \in {<< >>} \cup {c.Url :> checksumBytes(d) : d \in TargetData}}

\* the file system with the state file st and the target of c holding d,
\* or missing
FsWith(c, st, d, missing) ==
    LET f == FsInit("rw")
        n == f.dir[c.Path]
    IN  [f EXCEPT !.state = <<st>>,
                  !.ino[n] = IF missing THEN NoInode
                             ELSE [f.ino[n] EXCEPT !.data = d],
                  !.dir[c.Path] = IF missing THEN 0 ELSE n]

NextFetch == Next

InitFetch ==
    /\ inp \in {[kind |-> "none", cfg |-> <<c>>, keys |-> {},
                  enum |-> FALSE, buflens |-> {}, src |-> << >>] :
                    c \in {PasswdFile, GroupFile}}
    /\ fs \in {FsWith(inp.cfg[1], st, d, missing) :
                  st \in StatesOf(inp.cfg[1]), d \in TargetData,
                  missing \in BOOLEAN}
    /\ tool = ToolInit
    /\ hist = [on |-> TRUE, start |-> Snapshot(fs), log |-> << >>,
               body |-> [i \in 1..NFiles |-> << >>], killed |-> "no",
               list |-> << >>, reqs |-> << >>, atset |-> NotSet]
    /\ RdInit({1})

\* runs of the tool on one file
SpecFetch == InitFetch /\ [][NextFetch]_vars

\* the time the request for file i of the run must carry in
\* If-Modified-Since, 0 for none: the LastModified of the state the run
\* loaded, if the target held then what the Checksum of that state says
SinceOf(i) ==
    LET file == Cfg[i]
        st == IF hist.start.state = << >> THEN EmptyState
              ELSE hist.start.state[1]
        target == hist.start.file[file.Path]
    IN  IF /\ target # << >>
           /\ file.Url \in DOMAIN st.Checksum
           /\ st.Checksum[file.Url] = checksumBytes(target[1].data)
           /\ file.Url \in DOMAIN st.LastModified
        THEN st.LastModified[file.Url]
        ELSE 0

\* C11: the request of fetchFile carries If-Modified-Since, with the
\* LastModified of the state for the URL, if and only if that time is not
\* zero and the checksum of what the path holds is the Checksum of the
\* state for the URL; every other request is unconditional (and no request
\* is made for a path that does not exist).
C11_ConditionalIff ==
    /\ \A k \in DOMAIN hist.reqs :
          hist.reqs[k].since = SinceOf(hist.reqs[k].i)
    /\ \A k \in DOMAIN hist.log :
          LET e == hist.log[k]
          IN  e.ev = "fetch" =>
                /\ e.ims = "sent" <=> SinceOf(e.i) # 0
                /\ e.ims = "none" <=> hist.start.file[Cfg[e.i].Path] = << >>
                /\ e.ims # "none" =>
                      \E q \in DOMAIN hist.reqs : hist.reqs[q].i = e.i

\* a request has carried the time 2 of the state file, and the origin has
\* answered 304
C11_Witness ==
    /\ hist.reqs = <<[i |-> 1, since |-> 2, status |-> 304, lm |-> 0,
                     body |-> << >>]>>
    /\ hist.log = <<Event("fetch", 1, "", "sent")>>
    /\ tool.pc = "deploy"

\* a request has been unconditional because the target does not hold what
\* the state file, which has a time for the URL, says
C11_WitnessModified ==
    /\ Len(hist.reqs) = 1 /\ hist.reqs[1].since = 0
    /\ hist.start.state[1].LastModified = (Cfg[1].Url :> 2)
    /\ hist.start.state[1].Checksum = (Cfg[1].Url :> checksumBytes(<< >>))
    /\ hist.start.file[Cfg[1].Path][1].data # << >>

\* the origin has answered 304 to the request of this run for file i,
\* which carried If-Modified-Since
NotModified(i) ==
    \E k \in DOMAIN hist.reqs :
        /\ hist.reqs[k].i = i /\ hist.reqs[k].status = 304
        /\ hist.reqs[k].since # 0

\* the entries of state st for the URL of file i
EntryOf(st, i) ==
    [LastModified |-> MapGet(st.LastModified, Cfg[i].Url, 0),
     Checksum |-> MapGet(st.Checksum, Cfg[i].Url, << >>)]

\* C12: once the origin has answered 304 to a request with
\* If-Modified-Since, the run does not deploy the file (the path names the
\* same file with the same content, mode and owner as at the start of the
\* run) and the state keeps the LastModified and the Checksum it was loaded
\* with for the URL, in memory and in the state file the run writes at its
\* end, whatever Last-Modified header the 304 response carries.
C12_NotModifiedKeepsAll ==
    \A i \in 1..NFiles :
        NotModified(i) =>
            /\ hist.log[i] = Event("fetch", i, "", "sent")
            /\ hist.body[i] = << >>
            /\ \A k \in DOMAIN hist.log :
                  ~(hist.log[k].i = i
                       /\ hist.log[k].ev \in {"deploy", "deployed", "replaced"})
            /\ fs.dir[Cfg[i].Path] = hist.start.dir[Cfg[i].Path]
            /\ Snapshot(fs).file[Cfg[i].Path] = hist.start.file[Cfg[i].Path]
            /\ hist.start.state # << >> /\ fs.state # << >>
            /\ EntryOf(fs.state[1], i) = EntryOf(hist.start.state[1], i)
            /\ tool.pc \notin {"idle", "done", "failed", "killed"} =>
                  EntryOf(tool.state, i) = EntryOf(hist.start.state[1], i)

\* a 304 response with a Last-Modified header that differs from the time of
\* the request has been received, and the run has ended with the state file
\* rewritten
C12_Witness ==
    /\ hist.reqs = <<[i |-> 1, since |-> 2, status |-> 304, lm |-> 1,
                     body |-> << >>]>>
    /\ tool.pc = "done"
    /\ \E k \in DOMAIN hist.log : hist.log[k].ev = "statereplaced"

(***************************************************************************)
(* A failed deploy                                                         *)
(***************************************************************************)
\* the path of file i names what it named when the run started
KeepsOld(i) ==
    Snapshot(fs).file[Cfg[i].Path] = hist.start.file[Cfg[i].Path]

\* the path of file i holds the body the run fetched for it
HoldsNew(i) ==
    /\ hist.body[i] # << >>
    /\ Exists(fs, Cfg[i].Path)
    /\ Content(fs, Cfg[i].Path) = hist.body[i][1]

\* deployFile has failed for file k, and what the run made of it: the files
\* before k that had a body are deployed and the others are as they were,
\* the files after k are as they were, the state file is as it was and the
\* run is over; atK(k, err) says what became of file k
DeployFailure(atK(_, _)) ==
    \A n \in DOMAIN hist.log :
        LET e == hist.log[n]
        IN  e.ev = "deployed" /\ e.err # "" =>
               /\ n = Len(hist.log)
               /\ tool.pc = "failed"
               /\ \A i \in 1..(e.i - 1) :
                     IF hist.body[i] # << >> THEN HoldsNew(i) ELSE KeepsOld(i)
               /\ atK(e.i, e.err)
               /\ \A i \in (e.i + 1)..NFiles : KeepsOld(i)
               /\ fs.state = hist.start.state

\* C13: when deployFile fails for the k-th file, handleFiles returns at
\* once: the files deployed before k hold their new content, file k and
\* the files after it hold their old content, and the state file is not
\* written.
C13_DeployFailureKeepsOld ==
    DeployFailure(LAMBDA k, err : KeepsOld(k))

\* C13, amended: ... file k holds its old content unless it is the sync of
\* the directory, after the rename, that failed: then it holds its new
\* content.
C13_DeployFailureAborts ==
    DeployFailure(LAMBDA k, err : IF err = "syncPath" THEN HoldsNew(k)
                                  ELSE KeepsOld(k))

\* the deploy of the second file has failed before its rename, the first
\* file being deployed
C13_Witness ==
    /\ hist.log # << >>
    /\ hist.log[Len(hist.log)].ev = "deployed"
    /\ hist.log[Len(hist.log)].i = 2
    /\ hist.log[Len(hist.log)].err = "Write"
    /\ HoldsNew(1) /\ ~KeepsOld(1) /\ KeepsOld(2)

\* the deploy of a file has failed in syncPath: the file is replaced
C13_WitnessSync ==
    /\ hist.log # << >>
    /\ hist.log[Len(hist.log)].ev = "deployed"
    /\ hist.log[Len(hist.log)].err = "syncPath"
    /\ ~KeepsOld(hist.log[Len(hist.log)].i)

(***************************************************************************)
(* deployFile on any target                                                *)
(***************************************************************************)
\* the permissions of the targets of TestDeployFile: 0644, 0400, 0600,
\* 0777, 0666, 0000
TargetModes ==
    {{"ur", "uw", "gr", "or"}, {"ur"}, {"ur", "uw"},
     {"ur", "uw", "ux", "gr", "gw", "gx", "or", "ow", "ox"},
     {"ur", "uw", "gr", "gw", "or", "ow"}, {}}

\* the owners of a target
TargetIds == {0, 1}

\* the body of TestDeployFile ("Hello World!"), and an empty one
DeployBodies == {Lit(<<72, 101, 108, 108, 111, 32, 87, 111, 114, 108, 100, 33>>),
                 << >>}

\* the file system with the target of c of mode m, owned by uid and gid
FsTarget(c, m, uid, gid) ==
    LET f == FsInit("rw")
        n == f.dir[c.Path]
    IN  [f EXCEPT !.ino[n].mode = m, !.ino[n].uid = uid, !.ino[n].gid = gid]

NextDeploy ==
    \/ DeployBegin
    \/ DeployStat
    \/ DeployChmod
    \/ DeployChmodAll
    \/ DeployChown
    \/ DeployWrite
    \/ DeployWrite2
    \/ DeployReplace
    \/ DeploySync

\* deployFile is called for a file with a body, as by TestDeployFile
InitDeploy ==
    /\ inp \in {[kind |-> "none", cfg |-> <<c>>, keys |-> {},
                  enum |-> FALSE, buflens |-> {}, src |-> << >>] :
                    c \in {PasswdFile, GroupFile}}
    /\ fs \in {FsTarget(inp.cfg[1], m, uid, gid) :
                  m \in TargetModes, uid \in TargetIds, gid \in TargetIds}
    /\ \E b \in DeployBodies :
          /\ tool = [ToolInit EXCEPT !.pc = "deploy", !.body[1] = <<b>>]
          /\ hist = [on |-> TRUE, start |-> Snapshot(fs), log |-> << >>,
                     body |-> <<<<b>>>>, killed |-> "no", list |-> << >>,
                     reqs |-> << >>, atset |-> NotSet]
    /\ RdInit({1})

\* one call of either deployFile
SpecDeploy == InitDeploy /\ [][NextDeploy]_vars

\* deployFile has returned nil for file i
Deployed(i) ==
    \E k \in DOMAIN hist.log :
        hist.log[k] = Event("deployed", i, "", "none")

\* C14: after deployFile succeeds, the path holds exactly file.body, its
\* permission bits are those of the previous target without the write bits
\* (0222), and its owner and group are those of the previous target.
C14_DeployedAsTarget ==
    \A i \in 1..NFiles :
        Deployed(i) =>
            LET old == hist.start.file[Cfg[i].Path][1]
                new == FsStat(fs, Cfg[i].Path)
            IN  /\ Exists(fs, Cfg[i].Path)
                /\ Content(fs, Cfg[i].Path) = hist.body[i][1]
                /\ new.mode = old.mode \ WriteBits
                /\ new.uid = old.uid /\ new.gid = old.gid

\* deployFile has succeeded on a target of mode 0644, and the path has that
\* mode
C14_WriteBitsKept ==
    /\ Deployed(1)
    /\ hist.start.file[Cfg[1].Path][1].mode = {"ur", "uw", "gr", "or"}
    /\ FsStat(fs, Cfg[1].Path).mode = {"ur", "uw", "gr", "or"}
    /\ Content(fs, Cfg[1].Path) = hist.body[1][1]

\* deployFile has succeeded on a target of mode 0644 owned by 1:1, and the
\* path has the mode 0444, the owner and the group of the target
C14_Witness ==
    /\ Deployed(1)
    /\ hist.start.file[Cfg[1].Path][1].mode = {"ur", "uw", "gr", "or"}
    /\ FsStat(fs, Cfg[1].Path) = [mode |-> {"ur", "gr", "or"}, uid |-> 1, gid |-> 1]

\* ---------------------------------------------------------------------------
\* Two threads enumerating side by side

\* set{pw,gr}ent called while no get{pw,gr}ent_r call is in progress
setent_alone ==
    /\ \A t \in Threads : th[t].pc = "idle"
    /\ setent

NextEnum ==
    \/ Convert
    \/ setent_alone
    \/ getent_map
    \/ getent_entry
    \/ getent_return

\* a cache converted from a short list, and two threads that enumerate it
\* with buffers that hold every record
InitEnum ==
    /\ inp \in UNION {
            {[kind |-> k, cfg |-> << >>, keys |-> {}, enum |-> TRUE,
              buflens |-> {BigBuf}, src |-> s] : s \in Texts(k)} :
            k \in Kinds}
    /\ fs = FsInit("rw")
    /\ tool = ToolInit
    /\ hist = [on |-> TRUE, start |-> Snapshot(fs), log |-> << >>,
               body |-> << >>, killed |-> "no", list |-> << >>,
               reqs |-> << >>, atset |-> NotSet]
    /\ RdInit(Threads)

SpecEnum == InitEnum /\ [][NextEnum]_vars

\* the number of records of the file mapped for kind k
MappedCount(k) == h_count(View(rd.snap[k]))

\* C15: under every interleaving of threads that call get{pw,gr}ent_r with
\* buffers that hold the records, after one set{pw,gr}ent and with no
\* set/end call meanwhile, the successful calls return the records of index
\* 0, 1, ... count-1, each by exactly one call, none twice and none skipped,
\* and a call returns not-found exactly when all of them have been returned.
C15_EachRecordOnce ==
    \A k \in EnumKinds :
        /\ rd.file[k].header # 0 =>
              /\ Len(rd.got[k]) <= MappedCount(k)
              /\ rd.file[k].next_index = Len(rd.got[k])
              /\ \A i \in 1..Len(rd.got[k]) :
                    rd.got[k][i] = EnumAt(k, rd.snap[k], i - 1)
        /\ \A t \in Threads :
              th[t].pc = "getent_ret" /\ th[t].kind = k =>
                  /\ rd.file[k].header # 0
                  /\ th[t].ret.status \in {"SUCCESS", "NOTFOUND"}
                  /\ th[t].ret.status = "NOTFOUND"
                        <=> Len(rd.got[k]) = MappedCount(k)
                  /\ th[t].ret.status = "SUCCESS" =>
                        th[t].ret.out
                            = EnumAt(k, rd.snap[k], Len(rd.got[k]))

\* each of the two threads received one of the two records of the file
C15_Witness ==
    \E k \in EnumKinds :
        /\ rd.file[k].header # 0 /\ MappedCount(k) = 2
        /\ Len(rd.got[k]) = 2 /\ rd.got[k][1] # rd.got[k][2]
        /\ \A t \in Threads : th[t].pc = "idle" /\ th[t].kind = k
        /\ th[1].ret.status = "SUCCESS" /\ th[1].ret.out = rd.got[k][2]
        /\ th[2].ret.status = "SUCCESS" /\ th[2].ret.out = rd.got[k][1]

\* one thread received the last record and the other thread, not-found
C15_WitnessEnd ==
    \E k \in EnumKinds :
        /\ rd.file[k].header # 0 /\ MappedCount(k) = 2
        /\ Len(rd.got[k]) = 2
        /\ \A t \in Threads : th[t].pc = "idle" /\ th[t].kind = k
        /\ th[1].ret.status = "SUCCESS" /\ th[1].ret.out = rd.got[k][2]
        /\ th[2].ret.op = "getent" /\ th[2].ret.status = "NOTFOUND"

\* ---------------------------------------------------------------------------
\* Enumeration rounds while the cache file is replaced

\* set{pw,gr}ent, with the content of the file then at the cache path, the
\* status of the call before it and the cursor it found kept in the history
setent_seen ==
    \E t \in Threads, k \in EnumKinds :
        /\ internal_unmap_static_file(t, k, "setent")
        /\ hist' = [hist EXCEPT
                      !.atset = [set |-> TRUE,
                                 data |-> Content(fs, PathOf(k)),
                                 prev |-> th[t].ret.status,
                                 idx |-> rd.file[k].next_index]]

NextRound ==
    \/ DeployBegin
    \/ DeployStat
    \/ DeployChmod
    \/ DeployChown
    \/ DeployWrite
    \/ DeployWrite2
    \/ DeployReplace
    \/ DeploySync
    \/ setent_seen
    \/ getent_map
    \/ getent_read

\* the cache files nsscash makes of the text src of the type of file c
CachesOf(c, src) == {x.body : x \in {y \in ConvertBody(c.Type, src) : y.err = ""}}

\* a cache file, or an empty file, at the cache path, and a fetch run that is
\* about to deploy another cache file to that path
InitRound ==
    /\ inp \in {[kind |-> "pw", cfg |-> <<PasswdFile>>, keys |-> {},
                  enum |-> TRUE, buflens |-> {BigBuf}, src |-> << >>],
                 [kind |-> "gr", cfg |-> <<GroupFile>>, keys |-> {},
                  enum |-> TRUE, buflens |-> {BigBuf}, src |-> << >>]}
    /\ \E old, new \in IF inp.kind = "pw" THEN {PwTextA, PwTextB}
                                        ELSE {GrTextA, GrTextB} :
       \E a \in CachesOf(inp.cfg[1], old) \cup {<< >>},
          b \in CachesOf(inp.cfg[1], new) :
          /\ a # b
          /\ fs = [FsInit("ro") EXCEPT
                     !.ino[FsInit("ro").dir[inp.cfg[1].Path]].data = a]
          /\ tool = [ToolInit EXCEPT !.pc = "deploy", !.body[1] = <<b>>]
    /\ hist = [on |-> FALSE, start |-> Snapshot(fs), log |-> << >>,
               body |-> [i \in 1..NFiles |-> << >>], killed |-> "no",
               list |-> << >>, reqs |-> << >>, atset |-> NotSet]
    /\ RdInit({1})

SpecRound == InitRound /\ [][NextRound]_vars

\* C16 as stated: the records an enumeration returned after set{pw,gr}ent
\* belong to the file that was at the cache path when set{pw,gr}ent was
\* called.
C16_RecordsOfFileAtSetent ==
    \A k \in EnumKinds :
        hist.atset.set /\ rd.file[k].header # 0 /\ rd.got[k] # << >> =>
            rd.snap[k] = hist.atset.data

\* C16: set{pw,gr}ent releases the mapping and keeps none; the first
\* get{pw,gr}ent_r after it maps the file that is at the cache path at the
\* time of that call, with the cursor at 0, and the records returned from
\* then on belong to that file.
C16_RecordsOfFileAtFirstGet ==
    /\ [](\A k \in EnumKinds :
            /\ \A t \in Threads :
                  th[t].pc = "idle" /\ th[t].kind = k
                        /\ th[t].ret.op = "setent" =>
                      /\ rd.file[k].header = 0 /\ rd.file[k].fd = -1
                      /\ rd.got[k] = << >>
            /\ rd.file[k].header # 0 =>
                  /\ MappedData(fs, rd.file[k], PathOf(k)).r = rd.snap[k]
                  /\ Len(rd.got[k]) = rd.file[k].next_index
                  /\ \A i \in 1..Len(rd.got[k]) :
                        rd.got[k][i] = EnumAt(k, rd.snap[k], i - 1))
    /\ [][\A k \in EnumKinds :
            rd.file[k].header = 0 /\ rd'.file[k].header # 0 =>
                /\ \E t \in Threads : th'[t].pc = "getent"
                /\ rd'.file[k].header = fs.dir[PathOf(k)]
                /\ rd'.file[k].next_index = 0
                /\ rd'.snap[k] = Content(fs, PathOf(k))]_vars

\* a record was returned after a set{pw,gr}ent that was called while
\* another file was at the cache path
C16_Witness ==
    \E k \in EnumKinds :
        /\ hist.atset.set /\ rd.file[k].header # 0
        /\ Len(rd.got[k]) = 1
        /\ rd.snap[k] # hist.atset.data
        /\ rd.snap[k] = Content(fs, PathOf(k))
        /\ th[1].pc = "idle" /\ th[1].ret.status = "SUCCESS"

\* C17: the first get{pw,gr}ent_r call after set{pw,gr}ent, whatever the
\* enumerator was before (never opened, in the middle of a file, at its end,
\* after a mapping that failed), maps the file that is at the cache path
\* now, whatever was mapped before, and when it succeeds it returns the
\* record of orig index 0 of that file.
C17_FirstRecordAfterSetent ==
    [][\A t \in Threads :
          LET k == th[t].kind
          IN  /\ th[t].pc = "idle" /\ th[t].ret.op = "setent"
                    /\ th'[t].pc = "getent" =>
                   /\ rd'.file[k].header = fs.dir[PathOf(k)]
                   /\ rd'.file[k].next_index = 0
                   /\ rd'.snap[k] = Content(fs, PathOf(k))
                   /\ rd'.got[k] = << >>
              /\ th[t].pc = "getent" /\ rd.got[k] = << >>
                    /\ th'[t].pc = "idle"
                    /\ th'[t].ret.status = "SUCCESS" =>
                   /\ th'[t].ret.out = EnumAt(k, rd.snap[k], 0)
                   /\ rd'.got[k] = <<th'[t].ret.out>>]_vars

\* the first record of the file deployed meanwhile, after a set{pw,gr}ent in
\* the middle of the enumeration of the file that was there before
C17_Witness ==
    \E k \in EnumKinds :
        /\ hist.atset.set /\ hist.atset.prev = "SUCCESS"
        /\ hist.atset.idx = 1
        /\ hist.atset.data # << >> /\ h_count(View(hist.atset.data)) > 1
        /\ th[1].pc = "idle" /\ th[1].ret.op = "getent"
        /\ th[1].ret.status = "SUCCESS"
        /\ Len(rd.got[k]) = 1
        /\ rd.snap[k] # hist.atset.data
        /\ rd.got[k][1] = EnumAt(k, Content(fs, PathOf(k)), 0)

\* the same after a set{pw,gr}ent at the end of the file
C17_WitnessExhausted ==
    \E k \in EnumKinds :
        /\ hist.atset.set /\ hist.atset.prev = "NOTFOUND"
        /\ th[1].pc = "idle" /\ th[1].ret.status = "SUCCESS"
        /\ Len(rd.got[k]) = 1 /\ rd.snap[k] # hist.atset.data

\* the same after a mapping that failed
C17_WitnessFailed ==
    \E k \in EnumKinds :
        /\ hist.atset.set /\ hist.atset.prev = "UNAVAIL"
        /\ th[1].pc = "idle" /\ th[1].ret.status = "SUCCESS"
        /\ Len(rd.got[k]) = 1 /\ rd.snap[k] # hist.atset.data

\* the same in a process that had not enumerated before
C17_WitnessNever ==
    \E k \in EnumKinds :
        /\ hist.atset.set /\ hist.atset.prev = NoRet.status
        /\ hist.atset.idx = 0
        /\ th[1].pc = "idle" /\ th[1].ret.status = "SUCCESS"
        /\ Len(rd.got[k]) = 1 /\ rd.snap[k] # hist.atset.data

\* ---------------------------------------------------------------------------
\* The descriptors and mappings of a process that enumerates and looks up

NextRes ==
    \/ setent
    \/ endent
    \/ getent_map
    \/ getent_read
    \/ lookup_map
    \/ lookup_search

\* the cache file d with a byte of its magic changed ("NSS-CASh"), with the
\* version 2, 0 or 1 + 2^56, or cut after its magic
BadCaches(d) ==
    {BCat(Lit(<<78, 83, 83, 45, 67, 65, 83, 104>>), BDrop(d, 8)),
     BCat(BTake(d, 8), BCat(Lit(<<2>>), BDrop(d, 9))),
     BCat(BTake(d, 8), BCat(Lit(<<0>>), BDrop(d, 9))),
     BCat(BTake(d, 15), BCat(Lit(<<1>>), BDrop(d, 16))),
     BTake(d, 8)}

\* what the cache path of file c names: a cache file, a cache file with a
\* bad header, an empty file, a file that is no cache file, or nothing
FsCache(c) ==
    {FsWith(c, EmptyState, d, FALSE) :
        d \in UNION {CachesOf(c, src) : src \in Bodies(c.Type)}
                \cup UNION {BadCaches(d) :
                               d \in CachesOf(c, IF c.Type = "passwd"
                                                 THEN PwTextA ELSE GrTextA)}
                \cup {<< >>, Lit(<<72, 101, 108, 108, 111, 32, 87, 111, 114,
                                  108, 100, 33>>)}}
        \cup {FsWith(c, EmptyState, << >>, TRUE)}

\* two threads of one process, each of which enumerates and looks up
InitRes ==
    /\ inp \in {[kind |-> "pw", cfg |-> <<PasswdFile>>,
                  keys |-> {IdKey(<<0, 0, 0, 0>>), NameKey(Lit(<<122>>))},
                  enum |-> TRUE, buflens |-> AllBufLens, src |-> << >>],
                 [kind |-> "gr", cfg |-> <<GroupFile>>,
                  keys |-> {IdKey(<<0, 0, 0, 0>>), NameKey(Lit(<<122>>))},
                  enum |-> TRUE, buflens |-> AllBufLens, src |-> << >>]}
    /\ fs \in FsCache(inp.cfg[1])
    /\ tool = ToolInit
    /\ hist = [on |-> FALSE, start |-> Snapshot(fs), log |-> << >>,
               body |-> [i \in 1..NFiles |-> << >>], killed |-> "no",
               list |-> << >>, reqs |-> << >>, atset |-> NotSet]
    /\ RdInit(Threads)

SpecRes == InitRes /\ [][NextRes]_vars

\* the errno map_file fails with on the file the path names
MapErrno(k) == IF Exists(fs, PathOf(k)) THEN "EINVAL" ELSE "ENOENT"

\* C18: at any time, over any number of set, get, end and lookup calls of
\* the threads of a process, the process has open one descriptor and one
\* mapping for each enumerator that holds a file and for each lookup that
\* is in progress, and nothing else: a lookup that returned (success,
\* not-found, ERANGE, unavailable) and a map_file that failed left nothing
\* open; an enumerator holds a descriptor and a mapping or neither, and
\* neither when set{pw,gr}ent or end{pw,gr}ent returns; a call that is
\* unavailable reports the errno of the failure of map_file.
C18_AllReleased ==
    /\ [](/\ rd.res.fd = Cardinality({k \in Kinds : rd.file[k].fd >= 0})
                          + Cardinality({t \in Threads : th[t].pc = "lookup"})
          /\ rd.res.map = Cardinality({k \in Kinds : rd.file[k].header # 0})
                          + Cardinality({t \in Threads : th[t].pc = "lookup"})
          /\ \A k \in Kinds : rd.file[k].header # 0 <=> rd.file[k].fd >= 0
          /\ \A t \in Threads :
                /\ th[t].pc # "lookup" =>
                      th[t].f.header = 0 /\ th[t].f.fd = -1
                /\ th[t].pc = "idle" /\ th[t].ret.status = "UNAVAIL" =>
                      th[t].ret.errno = MapErrno(th[t].kind))
    /\ [][\A t \in Threads :
            LET k == th'[t].kind
            IN  /\ th'[t] # th[t] /\ th'[t].ret.op \in {"setent", "endent"} =>
                      /\ rd'.file[k].header = 0 /\ rd'.file[k].fd = -1
                      /\ rd'.res = Release(rd.file[k], rd.res)
                /\ th'[t] # th[t] /\ th'[t].ret.status = "UNAVAIL" =>
                      /\ rd'.res = rd.res
                      /\ th'[t].ret.op = "getent" =>
                            rd'.file[k].header = 0 /\ rd'.file[k].fd = -1
                /\ th[t].pc = "lookup" /\ th'[t].pc = "idle" =>
                      rd'.res = [fd |-> rd.res.fd - 1, map |-> rd.res.map - 1]
         ]_vars

\* a lookup returned ERANGE in a process whose enumerator holds the file:
\* one descriptor and one mapping are open
C18_Witness ==
    \E k \in EnumKinds :
        /\ th[1].pc = "idle" /\ th[1].ret.op = "lookup"
        /\ th[1].ret.status = "TRYAGAIN" /\ th[1].ret.errno = "ERANGE"
        /\ th[2].pc = "idle" /\ th[2].ret.op = "getent"
        /\ rd.file[k].header # 0
        /\ rd.res = [fd |-> 1, map |-> 1]

\* map_file failed on a file that is no cache file, in a lookup and in an
\* enumeration: nothing is open
C18_WitnessFailed ==
    /\ \A t \in Threads :
          th[t].pc = "idle" /\ th[t].ret.status = "UNAVAIL"
              /\ th[t].ret.errno = "EINVAL"
    /\ th[1].ret.op = "lookup" /\ th[2].ret.op = "getent"
    /\ \E k \in EnumKinds : Content(fs, PathOf(k)) # << >>
    /\ rd.res = NoRes

\* end{pw,gr}ent after an enumeration to the end: nothing is open
C18_WitnessEnd ==
    /\ th[1].pc = "idle" /\ th[1].ret.op = "endent"
    /\ th[2].pc = "idle" /\ th[2].ret.op = "getent"
    /\ th[2].ret.status = "NOTFOUND"
    /\ rd.res = NoRes

\* ---------------------------------------------------------------------------
\* The indexes of a converted file

\* the bytes SerializePasswd / SerializeGroup make of record r
SerializedRec(k, r) ==
    IF k = "pw" THEN SerializePasswd(r).res ELSE SerializeGroup(r).res

\* data.Len() when the i-th record of list is serialized: the offset of
\* that record in the data section
RECURSIVE RecOffset(_, _, _)
RecOffset(k, list, i) ==
    IF i = 1 THEN 0
    ELSE RecOffset(k, list, i - 1) + BLen(SerializedRec(k, list[i - 1]))

\* entry i (from 1) of the index at offset index_off of the file F
IndexEntry(F, index_off, i) ==
    U64ToInt(ReadU64(F, HeaderSize + index_off + 8 * (i - 1)))

\* the last position of list that holds a record equal to the i-th
LastEqual(list, i) ==
    CHOOSE j \in i..Len(list) :
        /\ list[j] = list[i]
        /\ \A m \in (j + 1)..Len(list) : list[m] # list[i]

\* C19 as stated: the converted file holds every record of the input, and
\* entry i of the orig index is the offset of the i-th serialized record, so
\* that the entries of two positions, also of two identical lines, differ;
\* the id index and the name index hold the offsets of all records.
C19_EntriesAtOwnRecords ==
    Converted_("") =>
        LET k == inp.kind
            F == View(Content(fs, PathOf(k)))
            n == Len(hist.list)
            own == {RecOffset(k, hist.list, i) : i \in 1..n}
        IN  /\ h_count(F) = n
            /\ \A i \in 1..n :
                  IndexEntry(F, h_off_orig_index(F), i)
                      = RecOffset(k, hist.list, i)
            /\ \A i, j \in 1..n :
                  i # j => IndexEntry(F, h_off_orig_index(F), i)
                              # IndexEntry(F, h_off_orig_index(F), j)
            /\ {IndexEntry(F, h_off_id_index(F), i) : i \in 1..n} = own
            /\ {IndexEntry(F, h_off_name_index(F), i) : i \in 1..n} = own

\* what the converted file does hold: the data section has the records of
\* the input one after the other, and entry i of the orig index is the
\* offset of the last record of the input that equals the i-th
EntriesAtEqualRecords ==
    Converted_("") =>
        LET k == inp.kind
            F == View(Content(fs, PathOf(k)))
            n == Len(hist.list)
        IN  /\ h_count(F) = n
            /\ Len(F.a) = HeaderSize + h_off_data(F)
                             + RecOffset(k, hist.list, n + 1)
            /\ \A i \in 1..n :
                  IndexEntry(F, h_off_orig_index(F), i)
                      = RecOffset(k, hist.list, LastEqual(hist.list, i))
            /\ \A x \in {h_off_id_index(F), h_off_name_index(F)} :
                  {IndexEntry(F, x, i) : i \in 1..n}
                      = {RecOffset(k, hist.list, LastEqual(hist.list, i)) :
                            i \in 1..n}

\* a file converted from two identical lines: both entries of the orig
\* index are the offset of the second record
C19_SharedOffset ==
    /\ Converted_("")
    /\ Len(hist.list) = 2 /\ hist.list[1] = hist.list[2]
    /\ LET k == inp.kind
           F == View(Content(fs, PathOf(k)))
       IN  /\ h_count(F) = 2
           /\ IndexEntry(F, h_off_orig_index(F), 1)
                 = RecOffset(k, hist.list, 2)
           /\ IndexEntry(F, h_off_orig_index(F), 2)
                 = RecOffset(k, hist.list, 2)
           /\ RecOffset(k, hist.list, 2) > 0

\* the positions of s in the order of a stable sort by less (given on the
\* positions of s): ascending, and positions that compare equal in their
\* order in s
StableSort(s, less) ==
    LET n == Len(s)
        perms == {f \in [1..n -> 1..n] : \A i, j \in 1..n : i # j => f[i] # f[j]}
    IN  CHOOSE f \in perms :
            \A i, j \in 1..n :
                i < j => \/ less[f[i], f[j]]
                         \/ ~less[f[j], f[i]] /\ f[i] < f[j]

\* the comparison of the id index of kind k
LessId(k, a, b) == IF k = "pw" THEN LessUid(a, b) ELSE LessGid(a, b)

\* C20 as stated: the id index and the name index of a converted file are
\* stable sorts of the input: the entries are in ascending order of uid/gid
\* (of name), and the entries of records with equal uid/gid (equal name)
\* are in the order of the input.
C20_StableIndexes ==
    Converted_("") =>
        LET k == inp.kind
            F == View(Content(fs, PathOf(k)))
            l == hist.list
            n == Len(l)
            byId == StableSort(l, [i, j \in 1..n |-> LessId(k, l[i], l[j])])
            byName == StableSort(l, [i, j \in 1..n |-> LessName(l[i], l[j])])
        IN  \A i \in 1..n :
               /\ IndexEntry(F, h_off_id_index(F), i)
                     = RecOffset(k, l, LastEqual(l, byId[i]))
               /\ IndexEntry(F, h_off_name_index(F), i)
                     = RecOffset(k, l, LastEqual(l, byName[i]))

\* what the indexes are: the offsets of the records in some ascending order
\* of uid/gid, and in some ascending order of name
IndexesAscending ==
    Converted_("") =>
        LET k == inp.kind
            F == View(Content(fs, PathOf(k)))
            l == hist.list
            n == Len(l)
        IN  /\ \E byId \in SortSlice([i \in 1..n |-> i],
                                     [i, j \in 1..n |-> LessId(k, l[i], l[j])]) :
                  \A i \in 1..n :
                      IndexEntry(F, h_off_id_index(F), i)
                          = RecOffset(k, l, LastEqual(l, byId[i]))
            /\ \E byName \in SortSlice([i \in 1..n |-> i],
                                       [i, j \in 1..n |-> LessName(l[i], l[j])]) :
                  \A i \in 1..n :
                      IndexEntry(F, h_off_name_index(F), i)
                          = RecOffset(k, l, LastEqual(l, byName[i]))

\* a file converted from two records of the same uid/gid, whose id index has
\* the second record first
C20_Unstable ==
    /\ Converted_("")
    /\ Len(hist.list) = 2 /\ hist.list[1] # hist.list[2]
    /\ LET k == inp.kind
           F == View(Content(fs, PathOf(k)))
       IN  /\ ~LessId(k, hist.list[1], hist.list[2])
           /\ ~LessId(k, hist.list[2], hist.list[1])
           /\ IndexEntry(F, h_off_id_index(F), 1)
                 = RecOffset(k, hist.list, 2)
           /\ IndexEntry(F, h_off_id_index(F), 2) = 0

\* the same for two records of the same name and the name index
C20_UnstableName ==
    /\ Converted_("")
    /\ Len(hist.list) = 2 /\ hist.list[1] # hist.list[2]
    /\ LET k == inp.kind
           F == View(Content(fs, PathOf(k)))
       IN  /\ hist.list[1].Name = hist.list[2].Name
           /\ IndexEntry(F, h_off_name_index(F), 1)
                 = RecOffset(k, hist.list, 2)
           /\ IndexEntry(F, h_off_name_index(F), 2) = 0

\* ---------------------------------------------------------------------------
\* The layout of a converted file

\* the lines of kind k and one whose name is the byte 0xe4
IdxLines(k) ==
    LinesOf(k) \o
        <<IF k = "pw"
          THEN Lit(<<228, 58, 120, 58, 50, 58, 50, 58, 58, 58, 10>>)
          ELSE Lit(<<228, 58, 120, 58, 50, 58, 10>>)>>

IdxTexts(k) ==
    {Cat([i \in DOMAIN f |-> IdxLines(k)[f[i]]]) :
        f \in UNION {[1..n -> 1..Len(IdxLines(k))] : n \in 0..MaxRecs}}

NextIdx == Convert

\* nsscash convert on a file of up to MaxRecs lines
InitIdx ==
    /\ inp \in UNION {
            {[kind |-> k, cfg |-> << >>, keys |-> {}, enum |-> FALSE,
              buflens |-> {BigBuf}, src |-> s] : s \in IdxTexts(k)} :
            k \in Kinds}
    /\ fs = FsInit("rw")
    /\ tool = ToolInit
    /\ hist = [on |-> TRUE, start |-> Snapshot(fs), log |-> << >>,
               body |-> << >>, killed |-> "no", list |-> << >>,
               reqs |-> << >>, atset |-> NotSet]
    /\ RdInit({1})

SpecIdx == InitIdx /\ [][NextIdx]_vars

\* the search key the reader makes of the record that entry i of the index
\* at offset index_off of F points at
KeyOfEntry(k, F, index_off, i, byName) ==
    LET data == HeaderSize + h_off_data(F)
        e == data + IndexEntry(F, index_off, i)
    IN  [byName |-> byName,
         name |-> IF byName THEN CStr(F.r, e + EntrySize(k)) ELSE << >>,
         id |-> ReadU64(F, e), data |-> data,
         offset |-> IF byName THEN EntrySize(k) ELSE 0]

\* C21: in every file SerializePasswds / SerializeGroups write, the
\* comparator of the reader's bsearch finds the record of each entry of the
\* id index not greater in id than the record of the next entry, and the
\* record of each entry of the name index not greater by strcmp in name
\* than the record of the next entry.
C21_IndexesMonotone ==
    Converted_("") =>
        LET k == inp.kind
            F == View(Content(fs, PathOf(k)))
            n == h_count(F)
        IN  /\ n = Len(hist.list)
            /\ \A i \in 1..(n - 1) :
                  /\ bsearch_callback(F,
                        KeyOfEntry(k, F, h_off_id_index(F), i, FALSE),
                        HeaderSize + h_off_id_index(F) + 8 * i) <= 0
                  /\ bsearch_callback(F,
                        KeyOfEntry(k, F, h_off_name_index(F), i, TRUE),
                        HeaderSize + h_off_name_index(F) + 8 * i) <= 0

\* a file converted from two records, the first greater than the second in
\* id and in name (the name of the first is a byte above 127): both indexes
\* have the second record first
C21_Witness ==
    /\ Converted_("")
    /\ Len(hist.list) = 2
    /\ LET k == inp.kind
           F == View(Content(fs, PathOf(k)))
       IN  /\ hist.list[1].Name = Lit(<<228>>)
           /\ LessId(k, hist.list[2], hist.list[1])
           /\ LessName(hist.list[2], hist.list[1])
           /\ IndexEntry(F, h_off_id_index(F), 1)
                 = RecOffset(k, hist.list, 2)
           /\ IndexEntry(F, h_off_name_index(F), 1)
                 = RecOffset(k, hist.list, 2)
           /\ IndexEntry(F, h_off_orig_index(F), 1) = 0

\* the offsets in F of the records the orig index of F points at
RecordsOf(F) ==
    {HeaderSize + h_off_data(F) + IndexEntry(F, h_off_orig_index(F), i) :
        i \in 1..h_count(F)}

\* C22: in every file SerializePasswds / SerializeGroups write, the header,
\* the three indexes and every record are a multiple of 8 bytes long, so
\* that every record starts at a multiple of 8 from the start of the data
\* section and from the start of the file, the records being packed one
\* after the other; and in a group record the table of member offsets
\* starts at an even offset.
C22_RecordsAligned ==
    Converted_("") =>
        LET k == inp.kind
            F == View(Content(fs, PathOf(k)))
            n == Len(hist.list)
        IN  /\ HeaderSize % 8 = 0
            /\ h_off_orig_index(F) = 0
            /\ h_off_id_index(F) = 8 * n
            /\ h_off_name_index(F) = 16 * n
            /\ h_off_data(F) = 24 * n
            /\ \A i \in 1..n :
                  /\ RecOffset(k, hist.list, i) % 8 = 0
                  /\ BLen(SerializedRec(k, hist.list[i])) % 8 = 0
                  /\ \A x \in {h_off_orig_index(F), h_off_id_index(F),
                               h_off_name_index(F)} :
                        /\ IndexEntry(F, x, i) % 8 = 0
                        /\ (HeaderSize + h_off_data(F)
                               + IndexEntry(F, x, i)) % 8 = 0
            /\ Len(F.a) = HeaderSize + h_off_data(F)
                             + RecOffset(k, hist.list, n + 1)
            /\ k = "gr" =>
                  \A e \in RecordsOf(F) :
                      /\ ReadU16(F, e + 10) % 2 = 0
                      /\ (e + GroupEntrySize + ReadU16(F, e + 10)) % 2 = 0

\* a group file of two records: the name and the password of the first
\* take an odd number of bytes and its fields a number that is no multiple
\* of 8, and the second record starts at a multiple of 8
C22_Witness ==
    /\ Converted_("") /\ inp.kind = "gr"
    /\ Len(hist.list) = 2
    /\ LET F == View(Content(fs, PathOf("gr")))
           e == HeaderSize + h_off_data(F)
           g == hist.list[1]
       IN  /\ (BLen(g.Name) + BLen(g.Passwd)) % 2 = 1
           /\ ReadU16(F, e + 10) = BLen(g.Name) + BLen(g.Passwd) + 3
           /\ (GroupEntrySize + ReadU16(F, e + 14)) % 8 # 0
           /\ IndexEntry(F, h_off_orig_index(F), 2) > 0
           /\ IndexEntry(F, h_off_orig_index(F), 2) % 8 = 0

\* ---------------------------------------------------------------------------
\* Buffers of every size

NextMat ==
    \/ Convert
    \/ getent_map
    \/ getent_read

\* a file of one or two lines, enumerated with buffers of 0 to BigBuf bytes
InitMat ==
    /\ inp \in UNION {
            {[kind |-> k, cfg |-> << >>, keys |-> {}, enum |-> TRUE,
              buflens |-> 0..BigBuf, src |-> s] :
                 s \in {LinesOf(k)[i] : i \in 1..3}
                          \cup {BCat(LinesOf(k)[2], LinesOf(k)[1])}} :
            k \in Kinds}
    /\ fs = FsInit("rw")
    /\ tool = ToolInit
    /\ hist = [on |-> TRUE, start |-> Snapshot(fs), log |-> << >>,
               body |-> << >>, killed |-> "no", list |-> << >>,
               reqs |-> << >>, atset |-> NotSet]
    /\ RdInit({1})

SpecMat == InitMat /\ [][NextMat]_vars

\* the offset in F of the record of orig index i (from 0)
EntryAt(F, i) ==
    HeaderSize + h_off_data(F) + IndexEntry(F, h_off_orig_index(F), i + 1)

\* the space the entry at offset e of F needs: data_size, and for a group
\* (mem_count + 1) * sizeof(char *) more
SpaceFor(k, F, e) ==
    IF k = "pw" THEN ReadU16(F, e + 24)
    ELSE (ReadU16(F, e + 12) + 1) * SizeofPtr + ReadU16(F, e + 14)

\* C23: get{pw,gr}ent_r on a record succeeds if and only if the buffer has
\* at least data_size bytes (passwd), (mem_count + 1) * sizeof(char *) +
\* data_size bytes (group), and returns try-again with ERANGE otherwise, so
\* for a buffer one byte smaller; after a success gr_mem has mem_count + 1
\* elements, element i pointing at the i-th member of the input line and the
\* last being NULL.
C23_SucceedsIffSpace ==
    \A k \in EnumKinds :
        th[1].pc = "idle" /\ th[1].ret.op = "getent"
              /\ th[1].ret.status \in {"SUCCESS", "TRYAGAIN"} =>
            LET F == View(rd.snap[k])
                ok == th[1].ret.status = "SUCCESS"
                i == IF ok THEN Len(rd.got[k]) - 1 ELSE Len(rd.got[k])
                e == EntryAt(F, i)
                out == th[1].ret.out
                mem_count == ReadU16(F, e + 12)
            IN  /\ ok <=> th[1].ret.buflen >= SpaceFor(k, F, e)
                /\ ~ok => th[1].ret.errno = "ERANGE"
                /\ ok /\ k = "gr" =>
                      /\ mem_count = Len(hist.list[i + 1].Members)
                      /\ Len(out.ptrs) = mem_count + 1
                      /\ out.ptrs[mem_count + 1] = -1
                      /\ out.res.mem = 0
                      /\ \A m \in 1..mem_count :
                            CStr(out.buf, out.ptrs[m]
                                             - (mem_count + 1) * SizeofPtr)
                                = hist.list[i + 1].Members[m]

\* a group of two members returned in a buffer of exactly the space needed
C23_Witness ==
    /\ th[1].pc = "idle" /\ th[1].ret.op = "getent"
    /\ th[1].ret.status = "SUCCESS" /\ inp.kind = "gr"
    /\ Len(rd.got["gr"]) = 1
    /\ Len(th[1].ret.out.ptrs) = 3
    /\ th[1].ret.buflen
          = SpaceFor("gr", View(rd.snap["gr"]), EntryAt(View(rd.snap["gr"]), 0))

\* the same group refused with a buffer one byte smaller
C23_WitnessShort ==
    /\ th[1].pc = "idle" /\ th[1].ret.op = "getent"
    /\ th[1].ret.status = "TRYAGAIN" /\ inp.kind = "gr"
    /\ rd.got["gr"] = << >>
    /\ ReadU16(View(rd.snap["gr"]), EntryAt(View(rd.snap["gr"]), 0) + 12) = 2
    /\ th[1].ret.buflen + 1
          = SpaceFor("gr", View(rd.snap["gr"]), EntryAt(View(rd.snap["gr"]), 0))

\* a group without members: gr_mem[0] is NULL
C23_WitnessNoMembers ==
    /\ th[1].pc = "idle" /\ th[1].ret.op = "getent"
    /\ th[1].ret.status = "SUCCESS" /\ inp.kind = "gr"
    /\ th[1].ret.out.ptrs = <<-1>>
    /\ th[1].ret.buflen = SizeofPtr + 4

\* a passwd record in a buffer of data_size bytes
C23_WitnessPasswd ==
    /\ th[1].pc = "idle" /\ th[1].ret.op = "getent"
    /\ th[1].ret.status = "SUCCESS" /\ inp.kind = "pw"
    /\ Len(rd.got["pw"]) = 1
    /\ th[1].ret.buflen
          = ReadU16(View(rd.snap["pw"]), EntryAt(View(rd.snap["pw"]), 0) + 24)

\* the origin has answered 304 to the request of this run for file i,
\* which did not carry If-Modified-Since
Unexpected304(i) ==
    \E k \in DOMAIN hist.reqs :
        /\ hist.reqs[k].i = i /\ hist.reqs[k].status = 304
        /\ hist.reqs[k].since = 0

\* C24: when the origin answers 304 to a request that carried no
\* If-Modified-Since (the state has no time for the URL, or the time was
\* dropped because the checksum of the target is not the one of the state),
\* fetchFile fails with "status code 304 but did not send
\* If-Modified-Since", the run ends, no target is touched and the state file
\* is not written.
C24_Unexpected304Fails ==
    \A i \in 1..NFiles :
        Unexpected304(i) =>
            /\ \E k \in DOMAIN hist.log :
                  hist.log[k] = Event("fetch", i,
                      "status code 304 but did not send If-Modified-Since",
                      "not sent")
            /\ tool.pc = "failed"
            /\ TargetsUntouched
            /\ fs.state = hist.start.state /\ fs.statetmp = "none"
            /\ ~Happened("deploy") /\ ~Happened("writestate")

\* a 304 answer in a run whose state file has a time for the URL and the
\* checksum of another content than the target holds
C24_Witness ==
    /\ Unexpected304(1)
    /\ tool.pc = "failed"
    /\ hist.start.state[1].LastModified = (Cfg[1].Url :> 2)
    /\ hist.start.state[1].Checksum = (Cfg[1].Url :> checksumBytes(<< >>))
    /\ hist.start.file[Cfg[1].Path][1].data # << >>

\* a 304 answer in a run whose state file has no time for the URL
C24_WitnessNoTime ==
    /\ Unexpected304(1)
    /\ tool.pc = "failed"
    /\ hist.start.state[1].LastModified = << >>
    /\ hist.start.state[1].Checksum
          = (Cfg[1].Url :> checksumBytes(hist.start.file[Cfg[1].Path][1].data))

(***************************************************************************)
(* Responses with nothing to deploy                                        *)
(***************************************************************************)
NextEmpty == Next

\* runs of the tool on one file of any type, and calls of deployFile for a
\* file whose body is there but empty
InitEmpty ==
    /\ inp \in {[kind |-> "none", cfg |-> <<c>>, keys |-> {},
                  enum |-> FALSE, buflens |-> {}, src |-> << >>] :
                    c \in {PlainFile, PasswdFile, GroupFile}}
    /\ fs \in {FsWith(inp.cfg[1], st, d, FALSE) :
                  st \in StatesOf(inp.cfg[1]), d \in TargetData}
    /\ \/ /\ tool = ToolInit
          /\ hist = [on |-> TRUE, start |-> Snapshot(fs), log |-> << >>,
                     body |-> [i \in 1..NFiles |-> << >>], killed |-> "no",
                     list |-> << >>, reqs |-> << >>, atset |-> NotSet]
       \/ /\ tool = [ToolInit EXCEPT !.pc = "deploy", !.body[1] = <<(<< >>)>>,
                                     !.state = LoadState(fs)]
          /\ hist = [on |-> TRUE, start |-> Snapshot(fs), log |-> << >>,
                     body |-> <<<<(<< >>)>>>>, killed |-> "no",
                     list |-> << >>, reqs |-> << >>, atset |-> NotSet]
    /\ RdInit({1})

SpecEmpty == InitEmpty /\ [][NextEmpty]_vars

\* the body of a 200 response gives a file of this type nothing to deploy
NothingToDeploy(type, body) ==
    IF type = "plain" THEN BLen(body) = 0
    ELSE IF type = "passwd"
    THEN ParsePasswds(body).err = "" /\ Len(ParsePasswds(body).res) = 0
    ELSE ParseGroups(body).err = "" /\ Len(ParseGroups(body).res) = 0

EmptyErr(type) ==
    IF type = "plain" THEN "refusing to use empty response"
    ELSE IF type = "passwd" THEN "refusing to use empty passwd file"
    ELSE "refusing to use empty group file"

\* the origin has answered the request of this run for file i with 200 and
\* a body that gives nothing to deploy
EmptyResponse(i) ==
    \E k \in DOMAIN hist.reqs :
        /\ hist.reqs[k].i = i /\ hist.reqs[k].status = 200
        /\ NothingToDeploy(Cfg[i].Type, hist.reqs[k].body)

\* deployFile has been called for file i with a body of length zero
EmptyDeploy(i) ==
    /\ \E k \in DOMAIN hist.log : hist.log[k] = Event("deploy", i, "", "none")
    /\ hist.body[i] # << >> /\ BLen(hist.body[i][1]) = 0

\* C25: a 200 response with nothing to deploy makes fetchFile fail, with
\* "refusing to use empty response" for an empty body of type plain and
\* "refusing to use empty passwd file" or "refusing to use empty group file"
\* for a body without records; deployFile called with a body of length zero
\* fails with "refusing to write empty file"; in each case the run has
\* failed, no target is touched and the state file is not written.
C25_EmptyRejected ==
    \A i \in 1..NFiles :
        /\ EmptyResponse(i) =>
              /\ \E k \in DOMAIN hist.log :
                    /\ hist.log[k].ev = "fetch" /\ hist.log[k].i = i
                    /\ hist.log[k].err = EmptyErr(Cfg[i].Type)
              /\ hist.body[i] = << >>
              /\ ~Happened("deploy")
        /\ EmptyDeploy(i) =>
              \E k \in DOMAIN hist.log :
                  hist.log[k] = Event("deployed", i,
                                      "refusing to write empty file", "none")
        /\ EmptyResponse(i) \/ EmptyDeploy(i) =>
              /\ tool.pc = "failed"
              /\ TargetsUntouched
              /\ \A n \in 1..MaxIno : ~fs.ino[n].tmp
              /\ fs.state = hist.start.state /\ fs.statetmp = "none"
              /\ ~Happened("writestate")

\* an empty response for a passwd file whose target has content, in a run
\* that found a state
C25_Witness ==
    /\ EmptyResponse(1) /\ Cfg[1].Type = "passwd"
    /\ tool.pc = "failed"
    /\ Content(fs, Cfg[1].Path) = Lit(<<120>>)
    /\ hist.start.state[1].LastModified # << >>

C25_WitnessPlain ==
    /\ EmptyResponse(1) /\ Cfg[1].Type = "plain"
    /\ tool.pc = "failed"

C25_WitnessGroup ==
    /\ EmptyResponse(1) /\ Cfg[1].Type = "group"
    /\ tool.pc = "failed"

C25_WitnessDeploy ==
    /\ EmptyDeploy(1)
    /\ tool.pc = "failed"

\* the run found no file at the path of file i
TargetMissing(i) == hist.start.dir[Cfg[i].Path] = 0

\* fetchFile has returned for file i
Fetched(i) ==
    \E k \in DOMAIN hist.log : hist.log[k].ev = "fetch" /\ hist.log[k].i = i

\* C26: when the path of a configured file does not exist, fetchFile fails
\* with "file.path ... must exist" without a request to the origin for that
\* file and the run ends; the path is not created at any time, and the
\* state file is not written.
C26_MissingTargetFails ==
    \A i \in 1..NFiles :
        TargetMissing(i) =>
            /\ ~Exists(fs, Cfg[i].Path)
            /\ \A k \in DOMAIN hist.reqs : hist.reqs[k].i # i
            /\ fs.state = hist.start.state /\ fs.statetmp = "none"
            /\ ~Happened("deploy") /\ ~Happened("writestate")
            /\ Fetched(i) =>
                  /\ \E k \in DOMAIN hist.log :
                        hist.log[k] = Event("fetch", i,
                                            "file.path must exist", "none")
                  /\ tool.pc = "failed"

\* the run has failed on a missing target, and had found a state file with
\* a time and a checksum
C26_Witness ==
    /\ TargetMissing(1) /\ Fetched(1)
    /\ tool.pc = "failed"
    /\ hist.start.state[1].LastModified # << >>
    /\ hist.start.state[1].Checksum # << >>

\* the pair a state file (<< >>: there is none) holds for url, each part as
\* << >> when the map has no entry for it
PairOf(sf, url) ==
    LET st == IF sf = << >> THEN EmptyState ELSE sf[1]
    IN  [lm |-> IF url \in DOMAIN st.LastModified
                THEN <<st.LastModified[url]>> ELSE << >>,
         sum |-> IF url \in DOMAIN st.Checksum
                 THEN <<st.Checksum[url]>> ELSE << >>]

\* the pairs fetchFile sets for file i from a 200 response of this run:
\* the Last-Modified of the response (the time of the request where the
\* response has none) and the checksum of the body it made
PairsSet(i) ==
    {[lm |-> <<IF hist.reqs[k].lm # 0 THEN hist.reqs[k].lm
               ELSE hist.reqs[k].since>>,
      sum |-> <<checksumBytes(hist.body[i][1])>>] :
        k \in {k \in DOMAIN hist.reqs :
                  /\ hist.reqs[k].i = i /\ hist.reqs[k].status = 200
                  /\ hist.body[i] # << >>}}

\* fetchFile has failed for file i after it had assigned LastModified[url]
AbortedBetween(i) ==
    /\ \E k \in DOMAIN hist.reqs :
          hist.reqs[k].i = i /\ hist.reqs[k].status = 200
    /\ \E k \in DOMAIN hist.log :
          /\ hist.log[k].ev = "fetch" /\ hist.log[k].i = i
          /\ hist.log[k].err # ""

\* C27: at any time the pair (LastModified[url], Checksum[url]) of the
\* state file on disk is, for every configured url, the pair the run found
\* on disk or the pair fetchFile set from the 200 response of the run; a run
\* in which fetchFile failed after assigning LastModified[url] leaves the
\* state file as it found it.
C27_PairsTogether ==
    \A i \in 1..NFiles :
        /\ \/ PairOf(fs.state, Cfg[i].Url) = PairOf(hist.start.state, Cfg[i].Url)
           \/ PairOf(fs.state, Cfg[i].Url) \in PairsSet(i)
        /\ AbortedBetween(i) =>
              /\ fs.state = hist.start.state
              /\ tool.pc = "failed"

\* a run has persisted a pair of which both parts differ from the parts the
\* state file held before
C27_Witness ==
    /\ tool.pc = "done"
    /\ PairOf(hist.start.state, Cfg[1].Url).lm = <<2>>
    /\ PairOf(hist.start.state, Cfg[1].Url).sum # << >>
    /\ PairOf(fs.state, Cfg[1].Url) \in PairsSet(1)
    /\ PairOf(fs.state, Cfg[1].Url).lm = <<1>>
    /\ PairOf(fs.state, Cfg[1].Url).sum
          # PairOf(hist.start.state, Cfg[1].Url).sum

\* a run has failed in the conversion of a 200 response whose Last-Modified
\* is not the time of the state file
C27_WitnessAbort ==
    /\ AbortedBetween(1)
    /\ PairOf(hist.start.state, Cfg[1].Url).lm = <<2>>
    /\ \E k \in DOMAIN hist.reqs : hist.reqs[k].lm = 1

\* a run has persisted a pair for a url the state file had none for
C27_WitnessFirst ==
    /\ tool.pc = "done"
    /\ PairOf(hist.start.state, Cfg[1].Url) = [lm |-> << >>, sum |-> << >>]
    /\ PairOf(fs.state, Cfg[1].Url) \in PairsSet(1)

\* the enumerator of kind k has a file mapped and has returned all of its
\* records
Exhausted(k) ==
    /\ rd.file[k].header # 0
    /\ rd.file[k].next_index >= h_count(View(rd.snap[k]))

\* C28: while the cursor of an enumerator is at the count of the mapped
\* file, a get{pw,gr}ent_r call maps nothing, returns NOTFOUND with ENOENT
\* and leaves cursor and mapping as they are, whatever is at the cache path
\* by then; only set{pw,gr}ent and end{pw,gr}ent end this.
C28_StaysAtEnd ==
    /\ [][\A t \in Threads :
          /\ \A k \in EnumKinds :
                Exhausted(k) /\ th[t].pc = "idle" /\ th'[t].pc = "getent"
                    /\ th'[t].kind = k =>
                   /\ rd'.file[k] = rd.file[k]
                   /\ rd'.snap[k] = rd.snap[k]
          /\ Exhausted(th[t].kind) /\ th[t].pc = "getent"
                /\ th'[t].pc = "idle" =>
               /\ th'[t].ret.op = "getent"
               /\ th'[t].ret.status = "NOTFOUND"
               /\ th'[t].ret.errno = "ENOENT"
               /\ th'[t].ret.out = NoResult
               /\ rd'.file = rd.file /\ rd'.snap = rd.snap
               /\ rd'.got = rd.got]_vars
    /\ [][\A k \in EnumKinds :
             Exhausted(k) /\ ~Exhausted(k)' =>
                \E t \in Threads :
                    /\ th'[t] # th[t]
                    /\ th'[t].ret.op \in {"setent", "endent"}]_vars

\* a call at the end of a file of two records has returned NOTFOUND, while
\* the cache path holds another file by now
C28_Witness ==
    \E k \in EnumKinds :
        /\ Exhausted(k)
        /\ Len(rd.got[k]) = 2
        /\ th[1].pc = "idle" /\ th[1].ret.op = "getent"
        /\ th[1].ret.status = "NOTFOUND" /\ th[1].ret.errno = "ENOENT"
        /\ Content(fs, PathOf(k)) # rd.snap[k]

\* open(path) fails: nothing is at the cache path of kind k
OpenFails(k) == ~Exists(fs, PathOf(k))

\* mmap fails: the file at the cache path is empty (a length of 0)
MmapFails(k) == Exists(fs, PathOf(k)) /\ BLen(Content(fs, PathOf(k))) = 0

\* the calls of kind k that have returned, but for set and end
Returned(k) ==
    {t \in Threads : /\ th[t].pc = "idle" /\ th[t].kind = k
                     /\ th[t].ret.op \in {"getent", "lookup"}}

\* while open or mmap of the cache file fails, no call maps anything, and
\* set{pw,gr}ent and end{pw,gr}ent succeed
NothingMapped(k) ==
    /\ rd.file[k].header = 0 /\ rd.file[k].fd = -1
    /\ rd.res = NoRes
    /\ \A t \in Threads :
          /\ th[t].f.header = 0 /\ th[t].f.fd = -1
          /\ th[t].pc = "idle"
          /\ th[t].ret.op \in {"setent", "endent"} =>
                th[t].ret.status = "SUCCESS"

\* the statement with ENOENT for every failure of open and mmap
C29_AlwaysNoent ==
    \A k \in ReadKinds :
        OpenFails(k) \/ MmapFails(k) =>
            /\ NothingMapped(k)
            /\ \A t \in Returned(k) :
                  /\ th[t].ret.status = "UNAVAIL"
                  /\ th[t].ret.errno = "ENOENT"
                  /\ th[t].ret.out = NoResult

\* C29: while the cache file is absent or its open or mmap fails, every
\* get{pw,gr}ent_r and every lookup by id or by name returns UNAVAIL with
\* the errno of the call that failed in errnop (ENOENT for a file that is
\* absent, EINVAL for the mmap of an empty file), however often it is
\* called; no mapping and no descriptor is kept, and set{pw,gr}ent and
\* end{pw,gr}ent return SUCCESS.
C29_UnavailableWithErrno ==
    \A k \in ReadKinds :
        OpenFails(k) \/ MmapFails(k) =>
            /\ NothingMapped(k)
            /\ \A t \in Returned(k) :
                  /\ th[t].ret.status = "UNAVAIL"
                  /\ th[t].ret.errno
                        = IF OpenFails(k) THEN "ENOENT" ELSE "EINVAL"
                  /\ th[t].ret.out = NoResult

\* an enumeration call and a lookup by name have failed on an empty file
C29_Witness ==
    \E k \in Kinds :
        /\ MmapFails(k)
        /\ Returned(k) = Threads
        /\ th[1].ret.op = "getent" /\ th[1].ret.errno = "EINVAL"
        /\ th[2].ret.op = "lookup" /\ th[2].ret.key.byName
        /\ th[2].ret.errno = "EINVAL"

\* an enumeration call and a lookup by id have failed with no file there
C29_WitnessAbsent ==
    \E k \in Kinds :
        /\ OpenFails(k)
        /\ Returned(k) = Threads
        /\ th[1].ret.op = "getent" /\ th[1].ret.errno = "ENOENT"
        /\ th[2].ret.op = "lookup" /\ ~th[2].ret.key.byName
        /\ th[2].ret.errno = "ENOENT"

\* end{pw,gr}ent has succeeded with no file there
C29_WitnessEnd ==
    \E k \in Kinds :
        /\ OpenFails(k)
        /\ th[1].kind = k /\ th[1].ret.op = "endent"
        /\ th[1].ret.status = "SUCCESS"
        /\ th[2].kind = k /\ th[2].ret.status = "UNAVAIL"

\* the first 8 bytes of the file at the cache path of kind k are not
\* "NSS-CASH", or the 8 bytes after them are not the number 1 in
\* little-endian order
BadHeader(k) ==
    /\ Exists(fs, PathOf(k))
    /\ LET F == View(Content(fs, PathOf(k)))
       IN  \/ [i \in 1..8 |-> ByteAt(F, i - 1)]
                 # <<78, 83, 83, 45, 67, 65, 83, 72>>
           \/ [i \in 1..8 |-> ByteAt(F, 7 + i)] # <<1, 0, 0, 0, 0, 0, 0, 0>>

\* C30: while the file at the cache path has not the magic "NSS-CASH" or
\* not the version 1, every call that maps it (get{pw,gr}ent_r, the lookups
\* by id and by name) returns UNAVAIL with EINVAL and no record, no
\* enumeration has a record of it, and no mapping or descriptor of it is
\* held once map_file has returned.
C30_BadHeaderRejected ==
    \A k \in ReadKinds :
        BadHeader(k) =>
            /\ rd.file[k].header = 0 /\ rd.file[k].fd = -1
            /\ rd.res = NoRes
            /\ rd.got[k] = << >>
            /\ \A t \in Threads :
                  /\ th[t].pc = "idle"
                  /\ th[t].f.header = 0 /\ th[t].f.fd = -1
                  /\ th[t].ret.out = NoResult
            /\ \A t \in Returned(k) :
                  /\ th[t].ret.status = "UNAVAIL"
                  /\ th[t].ret.errno = "EINVAL"

\* a file with the magic and the version 2: an enumeration call and a
\* lookup by id have been refused
C30_Witness ==
    \E k \in ReadKinds :
        /\ BadHeader(k)
        /\ BTake(Content(fs, PathOf(k)), 9)
              = Lit(<<78, 83, 83, 45, 67, 65, 83, 72, 2>>)
        /\ BLen(Content(fs, PathOf(k))) > HeaderSize
        /\ Returned(k) = Threads
        /\ th[1].ret.op = "getent" /\ th[2].ret.op = "lookup"
        /\ ~th[2].ret.key.byName

\* a file of the size of a cache with another magic and the version 1
C30_WitnessMagic ==
    \E k \in ReadKinds :
        /\ BadHeader(k)
        /\ BSub(Content(fs, PathOf(k)), 7, 2) = Lit(<<104, 1>>)
        /\ Returned(k) = Threads
        /\ th[1].ret.op = "lookup" /\ th[1].ret.key.byName
        /\ th[2].ret.op = "getent"

\* a file with the magic whose version is 1 in its low byte only
C30_WitnessHighByte ==
    \E k \in ReadKinds :
        /\ BadHeader(k)
        /\ BTake(Content(fs, PathOf(k)), 9)
              = Lit(<<78, 83, 83, 45, 67, 65, 83, 72, 1>>)
        /\ Returned(k) = Threads

(***************************************************************************)
(* Lookups beside the enumerations of both databases                       *)
(***************************************************************************)
NextLook ==
    \/ setent
    \/ endent
    \/ getent_map
    \/ getent_read
    \/ lookup_map
    \/ lookup_search

\* the file system with the passwd cache p and the group cache g
FsBoth(p, g) ==
    LET f == FsInit("rw")
    IN  [f EXCEPT !.ino[f.dir["passwd"]].data = p,
                  !.ino[f.dir["group"]].data = g]

\* two threads of one process that enumerate passwd and group and look up
\* in both, by an id that is there and by a name that is not, with a buffer
\* that holds the record and one that does not; the passwd cache may be
\* empty
InitLook ==
    /\ inp = [kind |-> "all", cfg |-> << >>,
              keys |-> {IdKey(<<0, 0, 0, 0>>), NameKey(Lit(<<122>>))},
              enum |-> TRUE, buflens |-> AllBufLens, src |-> << >>]
    /\ fs \in {FsBoth(p, g) :
                  p \in CachesOf(PasswdFile, PwTextB) \cup {<< >>},
                  g \in CachesOf(GroupFile, GrTextA)}
    /\ tool = ToolInit
    /\ hist = [on |-> FALSE, start |-> Snapshot(fs), log |-> << >>,
               body |-> << >>, killed |-> "no", list |-> << >>,
               reqs |-> << >>, atset |-> NotSet]
    /\ RdInit(Threads)

SpecLook == InitLook /\ [][NextLook]_vars

\* thread t takes a step of a lookup: it enters internal_get{pw,gr}, fails
\* in its map_file, or returns from it
LookupStep(t) ==
    /\ th'[t] # th[t]
    /\ \/ th[t].pc = "lookup"
       \/ th'[t].pc = "lookup"
       \/ th'[t].ret.op = "lookup"

\* C31: no step of a lookup by id or by name, whatever its outcome and
\* whatever the other thread is doing in an enumeration, changes the
\* static_file of the passwd or of the group enumerator (descriptor,
\* mapping, size, cursor), its lock, the file it has mapped or the records
\* it has returned.
C31_LookupLeavesEnumerators ==
    [][\A t \in Threads :
          LookupStep(t) =>
              /\ rd'.file = rd.file
              /\ rd'.lock = rd.lock
              /\ rd'.snap = rd.snap
              /\ rd'.got = rd.got]_vars

\* a lookup has succeeded while an enumeration call of the other thread was
\* in progress on the same database, with both enumerators in the middle
\* of their files
C31_Witness ==
    /\ th[1].pc = "getent" /\ th[1].kind = "pw"
    /\ rd.file["pw"].next_index = 1
    /\ rd.file["gr"].header # 0
    /\ th[2].pc = "idle" /\ th[2].kind = "pw"
    /\ th[2].ret.op = "lookup" /\ th[2].ret.status = "SUCCESS"

\* the other outcomes beside an enumerator that holds a mapping
C31_WitnessNotFound ==
    /\ rd.file["gr"].header # 0 /\ rd.file["gr"].next_index = 1
    /\ th[2].ret.op = "lookup" /\ th[2].ret.status = "NOTFOUND"
    /\ th[2].kind = "gr"

C31_WitnessTryAgain ==
    /\ rd.file["pw"].header # 0 /\ rd.file["pw"].next_index = 2
    /\ th[2].ret.op = "lookup" /\ th[2].ret.status = "TRYAGAIN"
    /\ th[2].kind = "gr"

C31_WitnessUnavailable ==
    /\ rd.file["gr"].header # 0 /\ rd.file["gr"].next_index = 1
    /\ th[2].ret.op = "lookup" /\ th[2].ret.status = "UNAVAIL"
    /\ th[2].kind = "pw"

(***************************************************************************)
(* Lines the parsers must accept and lines they must refuse                *)
(***************************************************************************)
\* lines of a passwd file, each with what the rule of the format says of
\* it: "" for a line of 7 fields whose uid and gid are decimal numbers
\* below 2^64, the error else
PwCand ==
    <<[text |-> Lit(<<97, 58, 120, 58, 48, 58, 48, 58, 58, 58, 10>>),
       verdict |-> ""],                                    \* a:x:0:0:::
      [text |-> Lit(<<109, 58, 120, 58, 49, 56, 52, 52, 54, 55, 52, 52, 48,
                      55, 51, 55, 48, 57, 53, 53, 49, 54, 49, 53, 58, 48, 48,
                      55, 58, 58, 58, 10>>),
       verdict |-> ""],                \* m:x:18446744073709551615:007:::
      [text |-> Lit(<<97, 58, 120, 58, 48, 58, 48, 58, 58, 10>>),
       verdict |-> "invalid line"],                        \* a:x:0:0::
      [text |-> Lit(<<97, 58, 120, 58, 48, 58, 48, 58, 58, 58, 58, 10>>),
       verdict |-> "invalid line"],                        \* a:x:0:0::::
      [text |-> Lit(<<10>>),
       verdict |-> "invalid line"],                        \* (empty line)
      [text |-> Lit(<<97, 58, 120, 58, 45, 49, 58, 48, 58, 58, 58, 10>>),
       verdict |-> "invalid uid in line"],                 \* a:x:-1:0:::
      [text |-> Lit(<<97, 58, 120, 58, 58, 48, 58, 58, 58, 10>>),
       verdict |-> "invalid uid in line"],                 \* a:x::0:::
      [text |-> Lit(<<97, 58, 120, 58, 49, 56, 52, 52, 54, 55, 52, 52, 48,
                      55, 51, 55, 48, 57, 53, 53, 49, 54, 49, 54, 58, 48,
                      58, 58, 58, 10>>),
       verdict |-> "invalid uid in line"], \* a:x:18446744073709551616:0:::
      [text |-> Lit(<<97, 58, 120, 58, 48, 58, 120, 58, 58, 58, 10>>),
       verdict |-> "invalid gid in line"]>>                \* a:x:0:x:::

\* the same for a group file: 4 fields, a decimal gid below 2^64
GrCand ==
    <<[text |-> Lit(<<103, 58, 120, 58, 48, 58, 10>>),
       verdict |-> ""],                                    \* g:x:0:
      [text |-> Lit(<<104, 58, 58, 49, 56, 52, 52, 54, 55, 52, 52, 48, 55,
                      51, 55, 48, 57, 53, 53, 49, 54, 49, 53, 58, 97, 44,
                      98, 10>>),
       verdict |-> ""],                  \* h::18446744073709551615:a,b
      [text |-> Lit(<<103, 58, 120, 58, 48, 10>>),
       verdict |-> "invalid line"],                        \* g:x:0
      [text |-> Lit(<<103, 58, 120, 58, 48, 58, 97, 58, 98, 10>>),
       verdict |-> "invalid line"],                        \* g:x:0:a:b
      [text |-> Lit(<<10>>),
       verdict |-> "invalid line"],                        \* (empty line)
      [text |-> Lit(<<103, 58, 120, 58, 45, 49, 58, 10>>),
       verdict |-> "invalid gid in line"],                 \* g:x:-1:
      [text |-> Lit(<<103, 58, 120, 58, 49, 56, 52, 52, 54, 55, 52, 52, 48,
                      55, 51, 55, 48, 57, 53, 53, 49, 54, 49, 54, 58, 10>>),
       verdict |-> "invalid gid in line"]>>  \* g:x:18446744073709551616:

CandOf(k) == IF k = "pw" THEN PwCand ELSE GrCand

\* a last line without a newline: none, x (one field), or the first line
\* above without its newline (all fields, valid)
TailCand(k) ==
    <<[text |-> Lit(<<120>>), verdict |-> "invalid line"],
      [text |-> BTake(CandOf(k)[1].text, BLen(CandOf(k)[1].text) - 1),
       verdict |-> ""]>>

NextLines == Convert

\* nsscash convert on the files of up to MaxRecs of these lines, with or
\* without such a last line; inp.lines and inp.tail say which
InitLines ==
    /\ inp \in UNION {UNION {
            {[kind |-> k, cfg |-> << >>, keys |-> {}, enum |-> FALSE,
              buflens |-> {},
              src |-> BCat(Cat([i \in DOMAIN f |-> CandOf(k)[f[i]].text]),
                           IF t = 0 THEN << >> ELSE TailCand(k)[t].text),
              lines |-> f, tail |-> t] :
                f \in UNION {[1..n -> 1..Len(CandOf(k))] : n \in 0..MaxRecs}} :
            t \in 0..2} : k \in Kinds}
    /\ fs = FsInit("rw")
    /\ tool = ToolInit
    /\ hist = [on |-> TRUE, start |-> Snapshot(fs), log |-> << >>,
               body |-> << >>, killed |-> "no", list |-> << >>,
               reqs |-> << >>, atset |-> NotSet]
    /\ RdInit({1})

SpecLines == InitLines /\ [][NextLines]_vars

\* what the rule says of each line of the input, in order
Verdicts ==
    [i \in DOMAIN inp.lines |-> CandOf(inp.kind)[inp.lines[i]].verdict]
        \o (IF inp.tail = 0 THEN << >>
            ELSE <<TailCand(inp.kind)[inp.tail].verdict>>)

\* the error of the first line that breaks the rule, "" when none does
Expected ==
    IF \A i \in DOMAIN Verdicts : Verdicts[i] = "" THEN ""
    ELSE Verdicts[CHOOSE i \in DOMAIN Verdicts :
                     /\ Verdicts[i] # ""
                     /\ \A j \in 1..(i - 1) : Verdicts[j] = ""]

\* the parser accepts the input of the conversion iff every line keeps the
\* rule, fails with the error of the first line that does not, and returns
\* no record when it fails
FollowsRule ==
    hist.log # << >> =>
        /\ Parsed(inp.kind, inp.src).err = Expected
        /\ Parsed(inp.kind, inp.src).err # "" =>
              /\ Parsed(inp.kind, inp.src).res = << >>
              /\ hist.list = << >>
              /\ Converted_(Parsed(inp.kind, inp.src).err)
              /\ Snapshot(fs) = hist.start

\* C32: ParsePasswds accepts an input iff every line has 7 fields with
\* decimal uid and gid below 2^64, ParseGroups iff every line has 4 fields
\* with such a gid; a line that breaks the rule makes the parse fail with
\* "invalid line", "invalid uid in line" or "invalid gid in line" and
\* without any record.
C32_AcceptsIffAllLinesValid == FollowsRule

\* ... which holds of the inputs whose last line ends in a newline
TerminatedFollowsRule == inp.tail = 0 => FollowsRule

\* ... and of the number of records of an accepted input
AcceptedHasAllLines ==
    hist.log # << >> /\ inp.tail = 0 /\ Expected = "" =>
        Len(Parsed(inp.kind, inp.src).res) = Len(inp.lines)

\* a passwd file whose last line is x, without a newline, has been
\* converted: the cache has the records of the lines before it
C32_BadLineAccepted ==
    /\ inp.kind = "pw" /\ inp.tail = 1 /\ Len(inp.lines) = 1
    /\ Expected = "invalid line"
    /\ Converted_("")
    /\ h_count(View(Content(fs, "passwd"))) = 1

\* a group file whose last line has its 4 fields and a valid gid but no
\* newline has been refused
GroupTailRefused ==
    /\ inp.kind = "gr" /\ inp.tail = 2 /\ Expected = ""
    /\ Converted_("no newline in last line")

\* a file of two lines has been refused for the uid of its second line
BadUidRefused ==
    /\ inp.kind = "pw" /\ inp.tail = 0 /\ inp.lines = <<2, 8>>
    /\ Converted_("invalid uid in line")

(***************************************************************************)
(* State files with entries of other URLs                                  *)
(***************************************************************************)
\* a URL that was configured once and is not any more
GoneUrl == "http://origin/gone"

\* the state st with entries for GoneUrl: in both maps, or a time only
WithGone(st) ==
    {[LastModified |-> MapPut(st.LastModified, GoneUrl, 2),
      Checksum |-> MapPut(st.Checksum, GoneUrl, checksumBytes(Lit(<<120>>)))],
     [LastModified |-> MapPut(st.LastModified, GoneUrl, 1),
      Checksum |-> st.Checksum]}

NextKeep == Next

\* runs of the tool on one file, with a state file that has entries for a
\* URL that is not configured
InitKeep ==
    /\ inp \in {[kind |-> "none", cfg |-> <<c>>, keys |-> {},
                  enum |-> FALSE, buflens |-> {}, src |-> << >>] :
                    c \in {PasswdFile, GroupFile}}
    /\ fs \in {FsWith(inp.cfg[1], st, d, FALSE) :
                  st \in UNION {WithGone(s) : s \in StatesOf(inp.cfg[1])},
                  d \in TargetData}
    /\ tool = ToolInit
    /\ hist = [on |-> TRUE, start |-> Snapshot(fs), log |-> << >>,
               body |-> [i \in 1..NFiles |-> << >>], killed |-> "no",
               list |-> << >>, reqs |-> << >>, atset |-> NotSet]
    /\ RdInit({1})

SpecKeep == InitKeep /\ [][NextKeep]_vars

\* the URLs a state file has an entry for, in either map
UrlsOf(sf) ==
    IF sf = << >> THEN {}
    ELSE DOMAIN sf[1].LastModified \cup DOMAIN sf[1].Checksum

\* the URLs the origin has answered with 200 in this run
Got200 ==
    {Cfg[hist.reqs[k].i].Url :
        k \in {k \in DOMAIN hist.reqs : hist.reqs[k].status = 200}}

\* C33: the state file on disk has, at any time and so after every
\* successful run, an entry in each map for every URL the loaded state file
\* had one for, configured or not, and for the URLs that got no 200 in this
\* run the entries are the ones that were loaded.
C33_EntriesKept ==
    /\ fs.state # << >>
    /\ DOMAIN hist.start.state[1].LastModified
          \subseteq DOMAIN fs.state[1].LastModified
    /\ DOMAIN hist.start.state[1].Checksum
          \subseteq DOMAIN fs.state[1].Checksum
    /\ \A url \in UrlsOf(fs.state) \cup UrlsOf(hist.start.state) :
          url \notin Got200 =>
              PairOf(fs.state, url) = PairOf(hist.start.state, url)

\* a run has written the state file with a new pair for its URL, and the
\* entries of the URL that is not configured are still there
C33_Witness ==
    /\ tool.pc = "done"
    /\ \E k \in DOMAIN hist.log : hist.log[k].ev = "statereplaced"
    /\ Got200 = {Cfg[1].Url}
    /\ PairOf(fs.state, Cfg[1].Url) # PairOf(hist.start.state, Cfg[1].Url)
    /\ PairOf(fs.state, GoneUrl)
          = [lm |-> <<2>>, sum |-> <<checksumBytes(Lit(<<120>>))>>]

\* a run in which the origin answered 304 has written the state file
C33_WitnessNotModified ==
    /\ tool.pc = "done"
    /\ \E k \in DOMAIN hist.log : hist.log[k].ev = "statereplaced"
    /\ Got200 = {} /\ hist.reqs # << >>
    /\ PairOf(fs.state, GoneUrl) = [lm |-> <<1>>, sum |-> << >>]

(***************************************************************************)
(* Temporary files after deployFile and WriteState have returned           *)
(***************************************************************************)
NextTemp == Next

\* runs of the tool on one file, and calls of deployFile for a file whose
\* target does not exist
InitTemp ==
    /\ inp \in {[kind |-> "none", cfg |-> <<c>>, keys |-> {},
                  enum |-> FALSE, buflens |-> {}, src |-> << >>] :
                    c \in {PasswdFile, GroupFile}}
    /\ \E missing \in BOOLEAN :
          /\ fs \in {FsWith(inp.cfg[1], st, d, missing) :
                        st \in StatesOf(inp.cfg[1]), d \in TargetData}
          /\ \/ /\ ~missing
                /\ tool = ToolInit
                /\ hist = [on |-> TRUE, start |-> Snapshot(fs), log |-> << >>,
                           body |-> [i \in 1..NFiles |-> << >>],
                           killed |-> "no", list |-> << >>, reqs |-> << >>,
                           atset |-> NotSet]
             \/ /\ missing
                /\ tool = [ToolInit EXCEPT !.pc = "deploy",
                                           !.body[1] = <<Lit(<<120>>)>>,
                                           !.state = LoadState(fs)]
                /\ hist = [on |-> TRUE, start |-> Snapshot(fs), log |-> << >>,
                           body |-> <<<<Lit(<<120>>)>>>>, killed |-> "no",
                           list |-> << >>, reqs |-> << >>, atset |-> NotSet]
    /\ RdInit({1})

SpecTemp == InitTemp /\ [][NextTemp]_vars

\* the process is inside deployFile or WriteState, after renameio.TempFile
InCall == tool.pc \in {"deploy", "writestate"} /\ tool.step # "start"

\* the last event of the run is that deployFile returned err for file i
DeployReturned(i, err) ==
    /\ hist.log # << >>
    /\ hist.log[Len(hist.log)] = Event("deployed", i, err, "none")

\* the last event of the run is that WriteState returned err
StateReturned(err) ==
    /\ hist.log # << >>
    /\ hist.log[Len(hist.log)] = Event("wrote", 0, err, "none")

\* C34: whenever the process is not inside deployFile or WriteState, so
\* after each of them has returned with success or with any error, no
\* temporary file of a call is left beside the target or the state file.
C34_NoTempAfterReturn ==
    ~InCall =>
        /\ \A n \in 1..MaxIno : ~fs.ino[n].tmp
        /\ fs.statetmp = "none"

\* deployFile has returned the error of Chown
C34_Witness ==
    /\ DeployReturned(1, "Chown")
    /\ tool.pc = "failed"
    /\ ~fs.stray

\* ... of Write, of the rename, that the target does not exist, or nil
C34_WitnessWrite == DeployReturned(1, "Write") /\ ~fs.stray
C34_WitnessRename == DeployReturned(1, "CloseAtomicallyReplace") /\ ~fs.stray
C34_WitnessStat ==
    /\ DeployReturned(1, "file.path must exist") /\ ~fs.stray
    /\ ~Exists(fs, Cfg[1].Path)
C34_WitnessOk == DeployReturned(1, "") /\ ~fs.stray

\* WriteState has returned the error of Write, of the rename, or nil
C34_WitnessStateWrite == StateReturned("Write") /\ ~fs.stray
C34_WitnessStateRename == StateReturned("CloseAtomicallyReplace") /\ ~fs.stray
C34_WitnessStateOk == StateReturned("") /\ ~fs.stray

(***************************************************************************)
(* Recovery of a target that is not the one of the state file              *)
(***************************************************************************)
\* at the start of the run the target of file i holds content whose
\* checksum is not the one the state file has for the URL
Mismatch(i) ==
    LET file == Cfg[i]
        st == IF hist.start.state = << >> THEN EmptyState
              ELSE hist.start.state[1]
        target == hist.start.file[file.Path]
    IN  /\ target # << >>
        /\ \/ file.Url \notin DOMAIN st.Checksum
           \/ st.Checksum[file.Url] # checksumBytes(target[1].data)

\* the bodies of the 200 responses of this run for file i that convert
\* without an error, converted
Valid200(i) ==
    UNION {{c.body : c \in {c \in Converted[Cfg[i].Type][hist.reqs[k].body] :
                                c.err = ""}} :
              k \in {k \in DOMAIN hist.reqs :
                        hist.reqs[k].i = i /\ hist.reqs[k].status = 200}}

\* a step of deployFile or WriteState has failed in this run
LocalFailure ==
    \E k \in DOMAIN hist.log :
        hist.log[k].ev \in {"deployed", "wrote"} /\ hist.log[k].err # ""

\* C35: a run that finds the target of a file with content whose checksum
\* is not the one of the state file (no state yet, a changed target, a run
\* that deployed and did not write its state) sends its request without
\* If-Modified-Since; when the origin answers 200 with a body that converts,
\* the run fails only where a step of deployFile or WriteState fails, and
\* when it has succeeded the target holds the converted body and the state
\* file has the checksum of it for the URL.
C35_Recovers ==
    \A i \in 1..NFiles :
        Mismatch(i) =>
            /\ \A k \in DOMAIN hist.reqs :
                  hist.reqs[k].i = i => hist.reqs[k].since = 0
            /\ Valid200(i) # {} /\ tool.pc = "failed" => LocalFailure
            /\ Valid200(i) # {} /\ tool.pc = "done" =>
                  /\ Content(fs, Cfg[i].Path) \in Valid200(i)
                  /\ fs.state # << >>
                  /\ Cfg[i].Url \in DOMAIN fs.state[1].Checksum
                  /\ fs.state[1].Checksum[Cfg[i].Url]
                        = checksumBytes(Content(fs, Cfg[i].Path))

\* a run has recovered a target that was changed: the state had a time and
\* the checksum of the empty content, the target held other content
C35_Witness ==
    /\ Mismatch(1) /\ Valid200(1) # {} /\ tool.pc = "done"
    /\ hist.start.state[1].LastModified = (Cfg[1].Url :> 2)
    /\ hist.start.state[1].Checksum = (Cfg[1].Url :> checksumBytes(<< >>))
    /\ hist.start.file[Cfg[1].Path][1].data = Lit(<<120>>)

\* ... a first run: the state has nothing for the URL
C35_WitnessFirstRun ==
    /\ Mismatch(1) /\ Valid200(1) # {} /\ tool.pc = "done"
    /\ hist.start.state[1] = EmptyState

\* ... a target that a run before has deployed without writing its state
C35_WitnessAborted ==
    /\ Mismatch(1) /\ Valid200(1) # {} /\ tool.pc = "done"
    /\ fs.stray
    /\ \E b \in Bodies(Cfg[1].Type) :
          \E c \in Converted[Cfg[1].Type][b] :
              c.err = "" /\ hist.start.file[Cfg[1].Path][1].data = c.body

\* ... and a run that has failed in deployFile
C35_WitnessLocalFailure ==
    /\ Mismatch(1) /\ Valid200(1) # {} /\ tool.pc = "failed"

(***************************************************************************)
(* The time that is stored after a 200 response                            *)
(***************************************************************************)
\* the origin sends Last-Modified or not as it likes, or never sends it
Origins == {"any", "no Last-Modified"}

\* fetchFile against the origin of the run: the one that never sends
\* Last-Modified answers without the header
FetchStamp ==
    /\ FetchFile
    /\ inp.origin = "no Last-Modified" =>
          \A k \in DOMAIN hist'.reqs : hist'.reqs[k].lm = 0

NextStamp ==
    \/ Start
    \/ FetchStamp
    \/ DeploySkip
    \/ DeployBegin
    \/ DeployStat
    \/ DeployChmod
    \/ DeployChown
    \/ DeployWrite
    \/ DeployWrite2
    \/ DeployReplace
    \/ DeploySync
    \/ WriteStateBegin
    \/ WriteStateWrite
    \/ WriteStateReplace
    \/ WriteStateSync
    \/ Kill

\* runs of the tool on one file; the state file of the runs against the
\* origin that never sends Last-Modified has no time for the URL, or the
\* zero time
InitStamp ==
    /\ inp \in {[kind |-> "none", cfg |-> <<c>>, keys |-> {},
                  enum |-> FALSE, buflens |-> {}, src |-> << >>,
                  origin |-> o] :
                    c \in {PasswdFile, GroupFile}, o \in Origins}
    /\ fs \in {FsWith(inp.cfg[1], st, d, FALSE) :
                  st \in {st \in StatesOf(inp.cfg[1]) :
                            inp.origin = "no Last-Modified" =>
                                MapGet(st.LastModified, inp.cfg[1].Url, 0) = 0},
                  d \in TargetData}
    /\ tool = ToolInit
    /\ hist = [on |-> TRUE, start |-> Snapshot(fs), log |-> << >>,
               body |-> [i \in 1..NFiles |-> << >>], killed |-> "no",
               list |-> << >>, reqs |-> << >>, atset |-> NotSet]
    /\ RdInit({1})

SpecStamp == InitStamp /\ [][NextStamp]_vars

\* the time fetchFile stores after the 200 response to request r
StampOf(r) == IF r.lm # 0 THEN r.lm ELSE r.since

\* the requests of this run for file i that were answered with 200
Answered200(i) ==
    {hist.reqs[k] : k \in {k \in DOMAIN hist.reqs :
                              /\ hist.reqs[k].i = i
                              /\ hist.reqs[k].status = 200}}

\* the target of file i was replaced in this run
Redeployed(i) ==
    \E k \in DOMAIN hist.log : hist.log[k] = Event("replaced", i, "", "none")

\* C36: after a 200 response state.LastModified[url] is the Last-Modified
\* header of the response when it has one, and the time the request carried
\* otherwise (zero when it carried none), in memory and in the state file
\* the run writes; against an origin that never sends Last-Modified the
\* time of the state file stays zero, every request is unconditional and
\* every successful run replaces the target.
C36_StoredTime ==
    \A i \in 1..NFiles :
        /\ \A r \in Answered200(i) :
              /\ tool.pc \in {"deploy", "writestate"} =>
                    /\ Cfg[i].Url \in DOMAIN tool.state.LastModified
                    /\ tool.state.LastModified[Cfg[i].Url] = StampOf(r)
              /\ Happened("statereplaced") =>
                    /\ Cfg[i].Url \in DOMAIN fs.state[1].LastModified
                    /\ fs.state[1].LastModified[Cfg[i].Url] = StampOf(r)
        /\ inp.origin = "no Last-Modified" =>
              /\ MapGet(LoadState(fs).LastModified, Cfg[i].Url, 0) = 0
              /\ MapGet(tool.state.LastModified, Cfg[i].Url, 0) = 0
              /\ \A k \in DOMAIN hist.reqs : hist.reqs[k].since = 0
              /\ tool.pc = "done" => Answered200(i) # {} /\ Redeployed(i)

\* a run has stored the Last-Modified header of a 200 response to a
\* request that carried another time
C36_Witness ==
    /\ tool.pc = "done" /\ Happened("statereplaced")
    /\ \E r \in Answered200(1) : r.lm = 1 /\ r.since = 2
    /\ fs.state[1].LastModified = (Cfg[1].Url :> 1)

\* ... the time of the request after a 200 response without the header
C36_WitnessSent ==
    /\ tool.pc = "done" /\ Happened("statereplaced")
    /\ \E r \in Answered200(1) : r.lm = 0 /\ r.since = 2
    /\ fs.state[1].LastModified = (Cfg[1].Url :> 2)

\* a run against the origin that never sends Last-Modified has found the
\* zero time of a run before in the state and the target with the checksum
\* of the state, has got the same content and has replaced the target
C36_WitnessUnchanged ==
    /\ inp.origin = "no Last-Modified"
    /\ tool.pc = "done" /\ Redeployed(1)
    /\ hist.start.state[1].LastModified = (Cfg[1].Url :> 0)
    /\ hist.start.state[1].Checksum
          = (Cfg[1].Url :> checksumBytes(hist.start.file[Cfg[1].Path][1].data))
    /\ hist.start.file[Cfg[1].Path][1].data = Content(fs, Cfg[1].Path)
    /\ hist.start.file[Cfg[1].Path][1].data \notin TargetData
    /\ fs.state[1].LastModified = (Cfg[1].Url :> 0)

(***************************************************************************)
(* The search of a lookup and the check of its buffer                      *)
(***************************************************************************)
\* the single-shot lookups that have returned from a mapped cache
Looked ==
    {t \in Threads : /\ th[t].pc = "idle" /\ th[t].ret.op = "lookup"
                     /\ th[t].ret.status # "UNAVAIL"}

\* the buffer of the lookup that thread t made holds no record of the cache
HoldsNone(t) ==
    \A i \in 1..Len(hist.list) :
        th[t].ret.buflen < Need(th[t].kind, hist.list[i])

\* C37: a single-shot lookup by a key that no record of the cache carries
\* returns not-found with ENOENT whatever its buffer, also with one that is
\* too small for every record, and a lookup that returns try-again returns
\* it with ERANGE and for a key that a record carries whose space the
\* buffer does not have.
C37_SearchBeforeSize ==
    \A t \in Looked :
        LET ret == th[t].ret
            m == Matches(th[t].kind, ret.key)
        IN  /\ m = {} => ret.status = "NOTFOUND" /\ ret.errno = "ENOENT"
            /\ ret.status = "TRYAGAIN" =>
                  /\ ret.errno = "ERANGE"
                  /\ \E i \in m : ret.buflen < Need(th[t].kind, hist.list[i])

\* a lookup by an id that no record carries, with a buffer that holds no
\* record of the cache, has returned not-found
C37_Witness ==
    \E t \in Looked :
        /\ Matches(th[t].kind, th[t].ret.key) = {}
        /\ ~th[t].ret.key.byName
        /\ hist.list # << >> /\ HoldsNone(t)
        /\ th[t].ret.status = "NOTFOUND" /\ th[t].ret.errno = "ENOENT"

\* ... by a name that no record carries
C37_WitnessName ==
    \E t \in Looked :
        /\ Matches(th[t].kind, th[t].ret.key) = {}
        /\ th[t].ret.key.byName /\ th[t].kind = "gr"
        /\ hist.list # << >> /\ HoldsNone(t)
        /\ th[t].ret.status = "NOTFOUND"

\* a lookup by a key that a record carries has returned try-again
C37_WitnessTryAgain ==
    \E t \in Looked :
        /\ Matches(th[t].kind, th[t].ret.key) # {}
        /\ th[t].ret.status = "TRYAGAIN" /\ th[t].ret.errno = "ERANGE"

(***************************************************************************)
(* The checksums of the state file after a successful run                  *)
(***************************************************************************)
\* the state file with, for each file of cfg in has, the time 2 and the
\* checksum of d
StateFor(cfg, has, d) ==
    [LastModified |-> [u \in {cfg[i].Url : i \in has} |-> 2],
     Checksum |-> [u \in {cfg[i].Url : i \in has} |-> checksumBytes(d)]]

\* the steps of runs that are not killed
NextSum ==
    \/ Start
    \/ FetchFile
    \/ DeploySkip
    \/ DeployBegin
    \/ DeployStat
    \/ DeployChmod
    \/ DeployChown
    \/ DeployWrite
    \/ DeployWrite2
    \/ DeployReplace
    \/ DeploySync
    \/ WriteStateBegin
    \/ WriteStateWrite
    \/ WriteStateReplace
    \/ WriteStateSync

\* runs of the tool on two files with different URLs, at two paths or both
\* at one path; the targets exist, and the state file has entries for none,
\* one or both of the files
InitSum ==
    /\ inp \in {[kind |-> "none", cfg |-> c, keys |-> {},
                  enum |-> FALSE, buflens |-> {}, src |-> << >>] :
                    c \in {<<PasswdFile, GroupFile>>, <<GroupFile, PlainFile>>}}
    /\ fs \in {[FsInit("rw") EXCEPT
                    !.state = <<StateFor(inp.cfg, has, << >>)>>] :
                  has \in SUBSET {1, 2}}
    /\ tool = ToolInit
    /\ hist = [on |-> TRUE, start |-> Snapshot(fs), log |-> << >>,
               body |-> [i \in 1..NFiles |-> << >>], killed |-> "no",
               list |-> << >>, reqs |-> << >>, atset |-> NotSet]
    /\ RdInit({1})

SpecSum == InitSum /\ [][NextSum]_vars

\* the state file has for file i the checksum of what its path holds
SumMatches(i) ==
    /\ fs.state # << >>
    /\ Cfg[i].Url \in DOMAIN fs.state[1].Checksum
    /\ Exists(fs, Cfg[i].Path)
    /\ fs.state[1].Checksum[Cfg[i].Url]
          = checksumBytes(Content(fs, Cfg[i].Path))

DistinctPaths ==
    \A i, j \in 1..NFiles : i # j => Cfg[i].Path # Cfg[j].Path

\* the status of the answer to the request of this run for file i
StatusOf(i) ==
    {hist.reqs[k].status : k \in {k \in DOMAIN hist.reqs : hist.reqs[k].i = i}}

\* after every successful run the state file has, for every file of the
\* configuration, the checksum of what its path holds: the statement for
\* every configuration with different URLs
C38_SumsMatchAnyPaths ==
    tool.pc = "done" => \A i \in 1..NFiles : SumMatches(i)

\* C38: after every successful run of a configuration whose files have
\* different URLs and different paths, the state file has for every file the
\* checksum of what its path holds, for the files that got 200 and were
\* deployed and for those that got 304.
C38_SumsMatch ==
    tool.pc = "done" /\ DistinctPaths => \A i \in 1..NFiles : SumMatches(i)

\* a successful run in which one file got 200 and the other 304
C38_Witness ==
    /\ tool.pc = "done" /\ DistinctPaths
    /\ StatusOf(1) = {200} /\ StatusOf(2) = {304}
    /\ SumMatches(1) /\ SumMatches(2)
    /\ Content(fs, Cfg[1].Path) # Content(fs, Cfg[2].Path)

\* a successful run of two files at one path: the path holds the body of
\* the second, the state file the checksum of the body of the first
C38_WitnessSharedPath ==
    /\ tool.pc = "done" /\ ~DistinctPaths
    /\ StatusOf(1) = {200} /\ StatusOf(2) = {200}
    /\ ~SumMatches(1) /\ SumMatches(2)

(***************************************************************************)
(* The 16 bit fields of records near the size limit                        *)
(***************************************************************************)
\* lines whose record has a data section of 65534 to 65536 bytes, the long
\* string being the name, the gecos field, or the first of two members:
\* xx...x:x:0:0:::, a:x:0:0:xx...x::, xx...x::0:a,b and g::0:xx...x,y
WideLines(k) ==
    IF k = "pw"
    THEN {Cat(<<Rep(120, n), Lit(<<58, 120, 58, 48, 58, 48, 58, 58, 58, 10>>)>>) :
              n \in {65529, 65530}}
            \cup {LongLine(k, n) : n \in {65528, 65529}}
    ELSE {Cat(<<Rep(120, n), Lit(<<58, 58, 48, 58, 97, 44, 98, 10>>)>>) :
              n \in {65524, 65525}}
            \cup {Cat(<<Lit(<<103, 58, 58, 48, 58>>), Rep(120, n),
                        Lit(<<44, 121, 10>>)>>) : n \in {65523, 65524, 65525}}

\* files of one such line, alone or after a short one
WideTexts(k) ==
    UNION {{l, BCat(LinesOf(k)[2], l)} : l \in WideLines(k)}

NextWide ==
    \/ Convert
    \/ setent
    \/ endent
    \/ getent_map
    \/ getent_read

\* a file with a record near the size limit is converted and a thread
\* enumerates the cache
InitWide ==
    /\ inp \in UNION {{[kind |-> k, cfg |-> << >>, keys |-> {}, enum |-> TRUE,
                         buflens |-> {BigBuf}, src |-> s] : s \in WideTexts(k)} :
                       k \in Kinds}
    /\ fs = FsInit("rw")
    /\ tool = ToolInit
    /\ hist = [on |-> TRUE, start |-> Snapshot(fs), log |-> << >>,
               body |-> << >>, killed |-> "no", list |-> << >>,
               reqs |-> << >>, atset |-> NotSet]
    /\ RdInit({1})

SpecWide == InitWide /\ [][NextWide]_vars

\* the offset of member j of group r in its data section, as a number
\* without bound: the strings before the table, padded to an even length,
\* the table, and the members before j
MemberOffset(r, j) ==
    LET strings == BLen(r.Name) + BLen(r.Passwd) + 2
    IN  strings + (strings % 2) + 2 * Len(r.Members)
            + SumLen(r.Members, 1) - SumLen(r.Members, j)

\* the 16 bit fields of the record at offset e of F are the numbers, without
\* bound, that the record r gives
FieldsExact(k, F, e, r) ==
    IF k = "pw"
    THEN /\ ReadU16(F, e + 16) = BLen(r.Name) + 1
         /\ ReadU16(F, e + 18) = BLen(r.Name) + BLen(r.Passwd) + 2
         /\ ReadU16(F, e + 20)
               = BLen(r.Name) + BLen(r.Passwd) + BLen(r.Gecos) + 3
         /\ ReadU16(F, e + 22)
               = BLen(r.Name) + BLen(r.Passwd) + BLen(r.Gecos) + BLen(r.Dir) + 4
         /\ ReadU16(F, e + 24) = DataSize(k, r)
    ELSE LET strings == BLen(r.Name) + BLen(r.Passwd) + 2
             off_mem_off == strings + (strings % 2)
         IN  /\ ReadU16(F, e + 8) = BLen(r.Name) + 1
             /\ ReadU16(F, e + 10) = off_mem_off
             /\ ReadU16(F, e + 12) = Len(r.Members)
             /\ ReadU16(F, e + 14) = DataSize(k, r)
             /\ \A j \in 1..Len(r.Members) :
                   ReadU16(F, e + GroupEntrySize + off_mem_off + 2 * (j - 1))
                       = MemberOffset(r, j)

\* C39: in every file SerializePasswds / SerializeGroups write, every 16
\* bit field of every record (off_passwd, off_gecos, off_dir, off_shell,
\* off_mem_off, mem_count, data_size and the offset of each member) is the
\* number it was computed from, none having wrapped around at 65536.
C39_FieldsNotWrapped ==
    Converted_("") =>
        LET k == inp.kind
            F == View(Content(fs, PathOf(k)))
        IN  \A i \in 1..Len(hist.list) :
                FieldsExact(k, F, EntryAt(F, i - 1), hist.list[i])

\* a passwd file with a record of exactly 65535 bytes of data, whose
\* off_shell is 65534, has been converted
C39_Witness ==
    /\ Converted_("") /\ inp.kind = "pw"
    /\ \E i \in 1..Len(hist.list) :
          /\ DataSize("pw", hist.list[i]) = MaxUint16
          /\ ReadU16(View(Content(fs, "passwd")),
                     EntryAt(View(Content(fs, "passwd")), i - 1) + 22)
                = MaxUint16 - 1

\* a group file with a record of 65535 bytes of data, whose second member
\* is at offset 65533, has been converted
C39_WitnessMember ==
    /\ Converted_("") /\ inp.kind = "gr"
    /\ \E i \in 1..Len(hist.list) :
          /\ DataSize("gr", hist.list[i]) = MaxUint16
          /\ Len(hist.list[i].Members) = 2
          /\ MemberOffset(hist.list[i], 2) = MaxUint16 - 2

\* a record of 65536 bytes of data has been refused
C39_WitnessRefused ==
    /\ Converted_(TooLargeErr(inp.kind))
    /\ \E i \in 1..Len(hist.list) :
          DataSize(inp.kind, hist.list[i]) = MaxUint16 + 1

(***************************************************************************)
(* set/end calls of one thread during get calls of another                 *)
(***************************************************************************)
\* two threads that call set{pw,gr}ent, end{pw,gr}ent and get{pw,gr}ent_r
\* in any order, a get call being three steps
NextFree ==
    \/ Convert
    \/ setent
    \/ endent
    \/ getent_map
    \/ getent_entry
    \/ getent_return

SpecFree == InitEnum /\ [][NextFree]_vars

\* thread t is inside internal_get{pw,gr}ent_r, past the mapping of the file
Materialising(t) == th[t].pc \in {"getent", "getent_ret"}

\* every pointer of the result out is NULL or points into the buffer of
\* buflen bytes that the caller gave, and so does the data copied
InBuffer(k, out, buflen) ==
    IF k = "pw"
    THEN /\ BLen(out.buf) <= buflen
         /\ \A p \in {out.res.name, out.res.passwd, out.res.gecos,
                      out.res.dir, out.res.shell} : p \in 0..(buflen - 1)
    ELSE /\ Len(out.ptrs) * SizeofPtr + BLen(out.buf) <= buflen
         /\ out.res.mem = 0
         /\ \A p \in {out.res.name, out.res.passwd} : p \in 0..(buflen - 1)
         /\ \A i \in 1..Len(out.ptrs) :
               IF i = Len(out.ptrs) THEN out.ptrs[i] = -1
               ELSE out.ptrs[i] \in (Len(out.ptrs) * SizeofPtr)..(buflen - 1)

\* C40: while a thread is inside internal_get{pw,gr}ent_r it holds the lock
\* of the cache, no other thread is inside it, and the file is mapped, with
\* the content it had when it was mapped, whatever set{pw,gr}ent and
\* end{pw,gr}ent calls the other thread makes; a successful call returns the
\* record at the cursor of that mapping, and the pointers of its result are
\* in the buffer of its caller, during the call and after the file has been
\* unmapped.
C40_NoReadOfUnmapped ==
    \A t \in Threads :
        /\ Materialising(t) =>
              LET k == th[t].kind
              IN  /\ rd.lock[k] = t
                  /\ \A u \in Threads \ {t} :
                        ~(Materialising(u) /\ th[u].kind = k)
                  /\ rd.file[k].header # 0
                  /\ fs.ino[rd.file[k].header].live
                  /\ MappedData(fs, rd.file[k], PathOf(k)).r = rd.snap[k]
                  /\ th[t].pc = "getent_ret" /\ th[t].ret.status = "SUCCESS" =>
                        th[t].ret.out
                            = EnumAt(k, rd.snap[k], rd.file[k].next_index)
        /\ th[t].ret.op = "getent" /\ th[t].ret.status = "SUCCESS" =>
              InBuffer(th[t].kind, th[t].ret.out, th[t].ret.buflen)

\* a thread is inside internal_get{pw,gr}ent_r, with the second record
\* materialised, after the other thread has called end{pw,gr}ent and while
\* that thread is not inside any call
C40_Witness ==
    /\ th[1].pc = "getent_ret" /\ th[1].ret.status = "SUCCESS"
    /\ rd.file[th[1].kind].next_index = 1
    /\ th[2].pc = "idle" /\ th[2].ret.op = "endent"
    /\ th[2].kind = th[1].kind

\* a thread has a record of a group with members from a call that has
\* returned, and the other thread has unmapped the file since
C40_WitnessAfterUnmap ==
    /\ th[1].pc = "idle" /\ th[1].ret.op = "getent"
    /\ th[1].ret.status = "SUCCESS" /\ th[1].kind = "gr"
    /\ Len(th[1].ret.out.ptrs) = 3
    /\ th[2].pc = "idle" /\ th[2].ret.op = "setent" /\ th[2].kind = "gr"
    /\ rd.file["gr"].header = 0

=============================================================================
